---- MODULE Spec2Model ----
(***************************************************************************)
(* Model of turtlenekko's benchmark engine (package benchmark, driver):    *)
(* RunMatrix -> Run -> RunScalingBenchmark -> runContextBenchmark ->       *)
(* RunWithPromptLength -> ChatCompletion, with fitCompletionTimeModel and  *)
(* Calculate as operators.                                                 *)
(*                                                                         *)
(* float64 values are modelled by exact rationals <<num, den>> (den > 0,   *)
(* lowest terms); time.Duration by an integer number of ticks, with        *)
(* TicksPerMs ticks to the millisecond, so that Duration.Milliseconds()    *)
(* truncates as in the source.                                             *)
(***************************************************************************)
EXTENDS Integers, Sequences, FiniteSets, TLC

(***************************************************************************)
(* Bounds of the model (not program constants).                            *)
(***************************************************************************)
\* Resolution of time.Duration: ticks per millisecond.
TicksPerMs == 2
\* Largest whole-millisecond deviation of a response time from the
\* server's nominal cost, under the noisy server profile.
MaxJitterMs == 1
\* Under the nominal server profile, how often the endpoint changes between
\* answering and failing during one Run.
MaxFlips == 1
\* Longest slice of fits handed to Calculate in a direct call.
MaxFits == 2
\* Most results handed to fitCompletionTimeModel in a direct call.
MaxObs == 4
\* Most results of one and the same token counts handed to it.
MaxSame == 3

\* Most values in the list of one parameter of a matrix handed to
\* generateParamCombinations in a direct call.
MaxValues == 2

(***************************************************************************)
(* Exact rational arithmetic standing for float64.                         *)
(***************************************************************************)
Abs(x) == IF x < 0 THEN -x ELSE x

RECURSIVE GCD(_, _)
GCD(a, b) == IF b = 0 THEN a ELSE GCD(b, a % b)

Rat(n, d) ==
    LET g == GCD(Abs(n), Abs(d))
        s == IF d < 0 THEN -1 ELSE 1
    IN  <<s * (n \div g), s * (d \div g)>>

RInt(n) == <<n, 1>>

RNeg(x) == <<-x[1], x[2]>>

RAdd(x, y) ==
    LET g == GCD(x[2], y[2])
    IN  Rat(x[1] * (y[2] \div g) + y[1] * (x[2] \div g), (x[2] \div g) * y[2])

RSub(x, y) == RAdd(x, RNeg(y))

RMul(x, y) ==
    LET g1 == GCD(Abs(x[1]), y[2])
        g2 == GCD(Abs(y[1]), x[2])
    IN  Rat((x[1] \div g1) * (y[1] \div g2), (x[2] \div g2) * (y[2] \div g1))

RInv(x) == IF x[1] < 0 THEN <<-x[2], -x[1]>> ELSE <<x[2], x[1]>>

RDiv(x, y) == RMul(x, RInv(y))

\* a/b < c/d for b, d > 0, by the continued-fraction expansion (no products).
RECURSIVE FracLess(_, _, _, _)
FracLess(a, b, c, d) ==
    LET qa == a \div b
        qc == c \div d
        ra == a % b
        rc == c % d
    IN  IF qa # qc THEN qa < qc
        ELSE IF rc = 0 THEN FALSE
        ELSE IF ra = 0 THEN TRUE
        ELSE FracLess(d, rc, b, ra)

RLess(x, y) == FracLess(x[1], x[2], y[1], y[2])

RLeq(x, y) == ~RLess(y, x)

RAbs(x) == <<Abs(x[1]), x[2]>>

(***************************************************************************)
(* IEEE 754 binary64 arithmetic, round to nearest even, for the direct     *)
(* calls of fitCompletionTimeModel.  A natural number of any size is a     *)
(* sequence of limbs, least significant first, in base LimbBase; a float64 *)
(* is <<s, m, e>> of value s * m * 2^e with s in {-1, 1} and m a natural     *)
(* number of exactly MantissaBits bits, or m = <<>> for zero.  No value of *)
(* the fit comes near the overflow or the subnormal range.                 *)
(***************************************************************************)
LimbBits == 15

LimbBase == 32768

MantissaBits == 53

\* 2^k for k < LimbBits.
Pow2(k) ==
    <<1, 2, 4, 8, 16, 32, 64, 128, 256, 512, 1024, 2048, 4096, 8192,
      16384>>[k + 1]

BLimb(a, i) == IF i <= Len(a) THEN a[i] ELSE 0

\* The index of the highest non-zero limb, 0 when there is none.
BTop(a) ==
    LET nonZero == {i \in 1..Len(a) : a[i] # 0}
    IN  IF nonZero = {} THEN 0
        ELSE CHOOSE i \in nonZero : \A j \in nonZero : j <= i

\* Without its leading zero limbs.
BStrip(a) == SubSeq(a, 1, BTop(a))

\* The number of limbs f[1], ..., f[n], without its leading zero limbs.
BLimbs(f, n) == BStrip(SubSeq(f, 1, n))

BFromNat(n) ==
    BStrip(<<n % LimbBase, (n \div LimbBase) % LimbBase,
             n \div (LimbBase * LimbBase)>>)

BZeros(k) == [i \in 1..k |-> 0]

\* a + b.  Limb i takes a carry when some limb below it overflows and every
\* limb between the two is full.
BAdd(a, b) ==
    IF b = <<>> THEN BStrip(a) ELSE
    LET n == 1 + IF Len(a) < Len(b) THEN Len(b) ELSE Len(a)
        sum == SubSeq([i \in 1..n |-> BLimb(a, i) + BLimb(b, i)], 1, n)
        carry(i) == IF \E j \in 1..(i - 1) :
                           /\ sum[j] >= LimbBase
                           /\ \A k \in (j + 1)..(i - 1) : sum[k] = LimbBase - 1
                    THEN 1 ELSE 0
    IN  BLimbs([i \in 1..n |-> (sum[i] + carry(i)) % LimbBase], n)

\* a - b for a >= b.  Limb i lends when the limbs of a below it are less than
\* those of b.
BSub(a, b) ==
    IF b = <<>> THEN a ELSE
    LET borrow(i) == IF \E j \in 1..(i - 1) :
                            /\ a[j] < BLimb(b, j)
                            /\ \A k \in (j + 1)..(i - 1) : a[k] = BLimb(b, k)
                     THEN 1 ELSE 0
    IN  BLimbs([i \in 1..Len(a) |->
                   (a[i] - BLimb(b, i) - borrow(i) + LimbBase) % LimbBase],
               Len(a))

\* -1, 0 or 1 as a is below, equal to or above b (both stripped).
BCmp(a, b) ==
    LET differ == {i \in 1..Len(a) : a[i] # BLimb(b, i)}
        top == CHOOSE i \in differ : \A j \in differ : j <= i
    IN  CASE Len(a) < Len(b) -> -1
          [] Len(a) > Len(b) -> 1
          [] Len(a) = Len(b) /\ differ = {} -> 0
          [] Len(a) = Len(b) /\ differ # {} -> IF a[top] < b[top] THEN -1 ELSE 1

\* a * n for a limb n: the low halves of the products of the limbs, and the
\* high halves a limb higher.
BMulLimb(a, n) ==
    IF a = <<>> \/ n = 0 THEN <<>> ELSE
    BAdd(BLimbs([i \in 1..Len(a) |-> (a[i] * n) % LimbBase], Len(a)),
         <<0>> \o [i \in 1..Len(a) |-> (a[i] * n) \div LimbBase])

\* a * b for b of at most four limbs, as a mantissa has.
BMul(a, b) ==
    LET part(i) == BZeros(i - 1) \o BMulLimb(a, BLimb(b, i))
    IN  BAdd(BAdd(part(1), part(2)), BAdd(part(3), part(4)))

\* a * 2^k.
BShl(a, k) ==
    IF a = <<>> THEN a
    ELSE BZeros(k \div LimbBits) \o BMulLimb(a, Pow2(k % LimbBits))

\* a \div 2^k.
BShr(a, k) ==
    IF a = <<>> THEN a ELSE
    LET whole == k \div LimbBits
        bits == k % LimbBits
        rest == IF whole >= Len(a) THEN <<>> ELSE SubSeq(a, whole + 1, Len(a))
    IN  BLimbs([i \in 1..Len(rest) |->
                   (rest[i] \div Pow2(bits))
                   + (BLimb(rest, i + 1) % Pow2(bits))
                     * Pow2(LimbBits - bits - 1) * 2],
               Len(rest))

\* The number of bits of a limb: the powers of two that are not above it.
BitsOfLimb(n) == Cardinality({k \in 0..(LimbBits - 1) : Pow2(k) <= n})

\* The number of bits of a (stripped).
BBitLen(a) ==
    IF a = <<>> THEN 0 ELSE LimbBits * (Len(a) - 1) + BitsOfLimb(a[Len(a)])

BOdd(a) == a # <<>> /\ a[1] % 2 = 1

\* A float64 and its parts.
F64(s, m, e) == <<s, m, e>>

FSign(x) == x[1]

FMant(x) == x[2]

FExp(x) == x[3]

FZero == F64(1, <<>>, 0)

\* Rounding to MantissaBits bits, ties to even, a step an operator: each
\* step hands what it computed to the next as an argument.
\* The rounded mantissa q1, one bit too long when the rounding carried.
FRoundCarry(s, q1, e) ==
    IF BBitLen(q1) > MantissaBits THEN F64(s, BShr(q1, 1), e + 1)
    ELSE F64(s, q1, e)

\* The mantissa q, rounded up when what was cut off compares as c (-1, 0, 1)
\* with half a unit of q.
FRoundTie(s, q, c, e) ==
    FRoundCarry(s, IF c > 0 \/ (c = 0 /\ BOdd(q)) THEN BAdd(q, <<1>>) ELSE q, e)

\* n with its k lowest bits cut off, q being n \div 2^k.
FRoundCut(s, n, k, q, e) ==
    FRoundTie(s, q, BCmp(BSub(n, BShl(q, k)), BShl(<<1>>, k - 1)), e + k)

\* n of len bits.
FRoundBits(s, n, e, len) ==
    IF len = 0 THEN FZero
    ELSE IF len <= MantissaBits
    THEN F64(s, BShl(n, MantissaBits - len), e - (MantissaBits - len))
    ELSE FRoundCut(s, n, len - MantissaBits, BShr(n, len - MantissaBits), e)

\* The float64 nearest to s * n * 2^e, ties to even.
FRound(s, n, e) == FRoundBits(s, n, e, BBitLen(n))

\* float64(n) for an int n.
FInt(n) == FRound(IF n < 0 THEN -1 ELSE 1, BFromNat(IF n < 0 THEN -n ELSE n), 0)

FIsZero(x) == FMant(x) = <<>>

FNeg(x) == IF FIsZero(x) THEN x ELSE F64(-FSign(x), FMant(x), FExp(x))

FAbs(x) == F64(1, FMant(x), FExp(x))

\* |x| < |y|.
FMagLess(x, y) ==
    IF FIsZero(y) THEN FALSE
    ELSE IF FIsZero(x) THEN TRUE
    ELSE IF FExp(x) # FExp(y) THEN FExp(x) < FExp(y)
    ELSE BCmp(FMant(x), FMant(y)) < 0

\* x < y.
FLess(x, y) ==
    IF FIsZero(x) THEN ~FIsZero(y) /\ FSign(y) = 1
    ELSE IF FIsZero(y) THEN FSign(x) = -1
    ELSE IF FSign(x) # FSign(y) THEN FSign(x) < FSign(y)
    ELSE IF FSign(x) = 1 THEN FMagLess(x, y) ELSE FMagLess(y, x)

\* x + y for |x| >= |y| > 0.  A y more than 2 * MantissaBits bits below x
\* acts only as what is left below the rounding bit.
FAddAligned(s, big, small, same, e) ==
    FRound(s, IF same THEN BAdd(big, small) ELSE BSub(big, small), e)

FAddOrdered(x, y) ==
    LET diff == FExp(x) - FExp(y)
        far == diff > 2 * MantissaBits
        shift == IF far THEN 3 ELSE diff
    IN  FAddAligned(FSign(x), BShl(FMant(x), shift),
                    IF far THEN <<1>> ELSE FMant(y), FSign(x) = FSign(y),
                    FExp(x) - shift)

FAddSwapped(x, y, swap) ==
    FAddOrdered(IF swap THEN y ELSE x, IF swap THEN x ELSE y)

FAdd(x, y) ==
    IF FIsZero(x) THEN y
    ELSE IF FIsZero(y) THEN x
    ELSE FAddSwapped(x, y, FMagLess(x, y))

FSub(x, y) == FAdd(x, FNeg(y))

FMul(x, y) ==
    IF FIsZero(x) \/ FIsZero(y) THEN FZero
    ELSE FRound(FSign(x) * FSign(y), BMul(FMant(x), FMant(y)), FExp(x) + FExp(y))

\* Long division, a limb of the quotient a step.  The divisor d has its top
\* limb at least LimbBase / 2 and the remainder r is below d * LimbBase, so
\* the quotient of the top limbs, taken with the divisor's top limb plus one,
\* is at most a few units below the quotient limb.
RECURSIVE BDivCorrect(_, _, _)
BDivCorrect(q, r, d) ==
    IF BCmp(r, d) < 0 THEN <<q, r>> ELSE BDivCorrect(q + 1, BSub(r, d), d)

\* <<r \div d, r % d>>.
BDivLimbOf(r, d) ==
    LET top == Len(d)
        est == IF Len(r) > top
               THEN (r[top + 1] * LimbBase + r[top]) \div (d[top] + 1)
               ELSE IF Len(r) = top THEN r[top] \div (d[top] + 1)
               ELSE 0
    IN  BDivCorrect(est, BSub(r, BMulLimb(d, est)), d)

\* <<quotient, remainder>> of the division by d after `limbs` more limbs of
\* the quotient, the limbs so far being `quotient` and the remainder r.
RECURSIVE BDivLimbs(_, _, _, _)
BDivNext(quotient, step, d, limbs) ==
    BDivLimbs(<<step[1]>> \o quotient, step[2], d, limbs - 1)

BDivLimbs(quotient, r, d, limbs) ==
    IF limbs = 0 THEN <<quotient, r>>
    ELSE IF r = <<>> THEN BDivLimbs(<<0>> \o quotient, r, d, limbs - 1)
    ELSE BDivNext(quotient, BDivLimbOf(<<0>> \o r, d), d, limbs)

\* <<quotient, remainder>> of num * LimbBase^limbs by d, for num < d * LimbBase.
BDivide(num, d, limbs) == BDivNext(<<>>, BDivLimbOf(num, d), d, limbs + 1)

\* x / y for y # 0: the quotient of the mantissas to more bits than the
\* mantissa has, and a last bit that tells whether the division left a
\* remainder.
FDivRounded(s, last, e) ==
    FRound(s, BAdd(BShl(BStrip(last[1]), 1),
                   IF last[2] = <<>> THEN <<>> ELSE <<1>>), e)

FDiv(x, y) ==
    IF FIsZero(x) THEN FZero
    ELSE LET limbs == Len(FMant(y))
             norm == LimbBits * limbs - MantissaBits
         IN  FDivRounded(FSign(x) * FSign(y),
                         BDivide(BShl(FMant(x), norm), BShl(FMant(y), norm),
                                 limbs),
                         FExp(x) - FExp(y) - LimbBits * limbs - 1)

\* math.Max for numbers.
FMax(x, y) == IF FLess(x, y) THEN y ELSE x

(***************************************************************************)
(* The numbers of the fit.  The benchmark runs are checked with the exact  *)
(* rationals, the direct calls of the fit with binary64: a number is a     *)
(* pair <<numerator, denominator>> or a triple <<s, m, e>>, and every      *)
(* operation of the fit works on either.                                   *)
(***************************************************************************)
Exact == "exact"

Binary64 == "binary64"

IsFloat64(x) == Len(x) = 3

\* float64(n) of an int n.
Float64(arith, n) == IF arith = Binary64 THEN FInt(n) ELSE RInt(n)

\* The float64 literal n/d, written in decimal in the source.
Literal(arith, n, d) ==
    IF arith = Binary64 THEN FDiv(FInt(n), FInt(d)) ELSE Rat(n, d)

Plus(x, y) == IF IsFloat64(x) THEN FAdd(x, y) ELSE RAdd(x, y)

Minus(x, y) == IF IsFloat64(x) THEN FSub(x, y) ELSE RSub(x, y)

Times(x, y) == IF IsFloat64(x) THEN FMul(x, y) ELSE RMul(x, y)

Over(x, y) == IF IsFloat64(x) THEN FDiv(x, y) ELSE RDiv(x, y)

Less(x, y) == IF IsFloat64(x) THEN FLess(x, y) ELSE RLess(x, y)

MathAbs(x) == IF IsFloat64(x) THEN FAbs(x) ELSE RAbs(x)

\* math.Max taking the smaller of the two (math.Min for math.Max).
MathMin(x, y) == IF Less(x, y) THEN x ELSE y

MathMax(x, y) == IF Less(x, y) THEN y ELSE x

\* math.Pow(x, 2): one rounded product.
MathPow2(x) == Times(x, x)

\* The literal 1e-10.
Float1em10 == FDiv(FInt(1), FMul(FInt(100000), FInt(100000)))

\* x > 1e-10 and x < 1e-10 for x >= 0.  Every rational the model can
\* represent has a denominator below 2^31 < 10^10, so a non-zero one is
\* above 1e-10.
AboveTiny(x) == IF IsFloat64(x) THEN FLess(Float1em10, x) ELSE x[1] # 0

BelowTiny(x) == IF IsFloat64(x) THEN FLess(x, Float1em10) ELSE x[1] = 0

(***************************************************************************)
(* CompletionResult (part_001:58-63) and ModelFitResult (part_001:324-329).*)
(***************************************************************************)
\* ResponseTime.Milliseconds(): whole milliseconds, truncated.
Milliseconds(t) == t \div TicksPerMs

NilFit ==
    [nil |-> TRUE, PromptRate |-> RInt(0), CachedPromptRate |-> RInt(0),
     CompletionRate |-> RInt(0), RSquared |-> RInt(0)]

ModelFitResult(a, b, c, r2) ==
    [nil |-> FALSE, PromptRate |-> a, CachedPromptRate |-> b,
     CompletionRate |-> c, RSquared |-> r2]

\* The fallback of the singular and nearly singular branches.
FallbackFitIn(arith) ==
    ModelFitResult(Float64(arith, 3), Literal(arith, 1, 100),
                   Float64(arith, 25), Literal(arith, 1, 2))

FallbackFit == FallbackFitIn(Exact)

\* Row of the design matrix X and the target y of one result.
XRow(r) == [j \in 0..2 |->
              CASE j = 0 -> r.PromptTokens
                [] j = 1 -> r.CachedPromptTokens
                [] j = 2 -> r.CompletionTokens]

YOf(r) == Milliseconds(r.ResponseTime)

\* Sum of f[e] over e in S, for rational f.
RECURSIVE SumRat(_, _)
SumRat(S, f) ==
    IF S = {} THEN RInt(0)
    ELSE LET e == CHOOSE e \in S : TRUE IN RAdd(f[e], SumRat(S \ {e}, f))

\* sum += terms[k], for k up to the length of terms in this order.
RECURSIVE Accumulate(_, _, _)
Accumulate(sum, terms, k) ==
    IF k > Len(terms) THEN sum
    ELSE IF IsFloat64(sum)
    THEN Accumulate(FAdd(sum, terms[k]), terms, k + 1)
    ELSE Accumulate(RAdd(sum, terms[k]), terms, k + 1)

\* zero + f[1] + ... + f[n], added in this order.
SumOf(zero, f, n) == Accumulate(zero, SubSeq(f, 1, n), 1)

\* A row of the augmented matrix and the matrix of three rows, indexed from 0.
Row(a, b, c, d) == (0 :> a) @@ (1 :> b) @@ (2 :> c) @@ (3 :> d)

Rows(r0, r1, r2) == (0 :> r0) @@ (1 :> r1) @@ (2 :> r2)

\* Partial pivoting: the row of largest magnitude in column i, the first
\* one on ties (strict comparison).
RECURSIVE FindPivot(_, _, _, _)
FindPivot(aug, i, j, maxRow) ==
    IF j >= 3 THEN maxRow
    ELSE FindPivot(aug, i, j + 1,
                   IF Less(MathAbs(aug[maxRow][i]), MathAbs(aug[j][i]))
                   THEN j ELSE maxRow)

\* Row i divided by its pivot, from column i on.
ScaleRow(row, i) ==
    LET pivot == row[i]
        scaled(k) == IF k >= i THEN Over(row[k], pivot) ELSE row[k]
    IN  Row(scaled(0), scaled(1), scaled(2), scaled(3))

\* Row `row` less its column-i entry times the scaled pivot row, from column
\* i on.
EliminateRow(row, pivotRow, i) ==
    LET factor == row[i]
        left(k) == IF k >= i THEN Minus(row[k], Times(factor, pivotRow[k]))
                   ELSE row[k]
    IN  Row(left(0), left(1), left(2), left(3))

\* Rows i and maxRow of the matrix swapped.
SwapRows(aug, i, maxRow) ==
    LET swapped(r) == IF r = i THEN aug[maxRow]
                      ELSE IF r = maxRow THEN aug[i] ELSE aug[r]
    IN  Rows(swapped(0), swapped(1), swapped(2))

\* The scaled pivot row in place of row i, and taken out of every other row.
EliminateRows(aug, pivotRow, i) ==
    (i :> pivotRow) @@
    [r \in (0..2) \ {i} |-> EliminateRow(aug[r], pivotRow, i)]

\* Column i of the matrix with its pivot swapped in: a pivot below 1e-10 in
\* magnitude makes the matrix singular, any other has its row scaled and its
\* column eliminated.
EliminateColumn(aug, i) ==
    IF BelowTiny(MathAbs(aug[i][i])) THEN [singular |-> TRUE, m |-> aug]
    ELSE [singular |-> FALSE, m |-> EliminateRows(aug, ScaleRow(aug[i], i), i)]

\* Iteration i of the elimination loop, which a singular matrix has left.
EliminationStep(ge, i) ==
    IF ge.singular THEN ge
    ELSE EliminateColumn(SwapRows(ge.m, i, FindPivot(ge.m, i, i + 1, i)), i)

\* Gauss-Jordan elimination of the augmented 3x4 matrix, for i = 0, 1, 2.
GaussianElimination(aug) ==
    EliminationStep(
        EliminationStep(
            EliminationStep([singular |-> FALSE, m |-> aug], 0), 1), 2)

\* The design matrix X and the targets y of the results, as float64.
DesignMatrix(arith, results) ==
    SubSeq([k \in 1..Len(results) |->
               LET row == XRow(results[k])
               IN  <<Float64(arith, row[0]), Float64(arith, row[1]),
                     Float64(arith, row[2])>>],
           1, Len(results))

Targets(arith, results) ==
    SubSeq([k \in 1..Len(results) |-> Float64(arith, YOf(results[k]))],
           1, Len(results))

\* X^T X and X^T y, and the augmented matrix [X^T X | X^T y].
XtX(zero, X, i, j) ==
    SumOf(zero, [k \in 1..Len(X) |-> Times(X[k][i + 1], X[k][j + 1])], Len(X))

XtY(zero, X, y, i) ==
    SumOf(zero, [k \in 1..Len(X) |-> Times(X[k][i + 1], y[k])], Len(X))

Augmented(zero, X, y) ==
    LET xtxRow(i) == Row(XtX(zero, X, i, 0), XtX(zero, X, i, 1),
                         XtX(zero, X, i, 2), XtY(zero, X, y, i))
    IN  Rows(xtxRow(0), xtxRow(1), xtxRow(2))

\* Some column of X^T X has no entry above 1e-10 in magnitude.
ZeroColumn(augmented) ==
    \E j \in 0..2 : \A i \in 0..2 : ~AboveTiny(MathAbs(augmented[i][j]))

\* R-squared from the two sums of squares.
RSquaredOfSums(arith, zero, totalSumSquares, residualSumSquares) ==
    IF Less(zero, totalSumSquares)
    THEN Minus(Float64(arith, 1), Over(residualSumSquares, totalSumSquares))
    ELSE zero

\* R-squared of the rates a, b, c, meanY being the mean of the targets.
RSquaredOf(arith, zero, X, y, meanY, a, b, c) ==
    RSquaredOfSums(arith, zero,
        SumOf(zero, [k \in 1..Len(X) |-> MathPow2(Minus(y[k], meanY))],
              Len(X)),
        SumOf(zero,
              [k \in 1..Len(X) |->
                  MathPow2(Minus(y[k],
                                 Plus(Plus(Times(a, X[k][1]), Times(b, X[k][2])),
                                      Times(c, X[k][3]))))],
              Len(X)))

\* The result for the rates a, b, c, already raised to their floors.
FitOfRates(arith, zero, X, y, a, b, c) ==
    ModelFitResult(a, b, c,
                   RSquaredOf(arith, zero, X, y,
                              Over(SumOf(zero, y, Len(X)),
                                   Float64(arith, Len(X))),
                              a, b, c))

\* The result for the eliminated matrix ge.
FitOfSolution(arith, zero, X, y, ge) ==
    IF ge.singular THEN FallbackFitIn(arith)
    ELSE FitOfRates(arith, zero, X, y,
                    MathMax(Literal(arith, 1, 100), ge.m[0][3]),
                    MathMax(Literal(arith, 1, 1000), ge.m[1][3]),
                    MathMax(Literal(arith, 1, 10), ge.m[2][3]))

\* The result for the augmented matrix.
FitOfAugmented(arith, zero, X, y, augmented) ==
    IF ZeroColumn(augmented) THEN FallbackFitIn(arith)
    ELSE FitOfSolution(arith, zero, X, y, GaussianElimination(augmented))

\* The result for the design matrix X and the targets y.
FitOfData(arith, zero, X, y) ==
    IF Len(X) < 2 THEN ModelFitResult(zero, zero, zero, zero)
    ELSE FitOfAugmented(arith, zero, X, y, Augmented(zero, X, y))

\* fitCompletionTimeModel over the slice of (non-nil) results, in the
\* arithmetic `arith`.
fitCompletionTimeModelIn(arith, results) ==
    FitOfData(arith, Float64(arith, 0), DesignMatrix(arith, results),
              Targets(arith, results))

\* A slice holding the results of a set, in some order.
RECURSIVE SliceOf(_)
SliceOf(S) ==
    IF S = {} THEN <<>>
    ELSE LET e == CHOOSE e \in S : TRUE IN <<e>> \o SliceOf(S \ {e})

\* The fit of the results a benchmark run collected, in exact arithmetic:
\* there the sums do not depend on the order in which the map is iterated.
fitCompletionTimeModel(results) == fitCompletionTimeModelIn(Exact, SliceOf(results))

(***************************************************************************)
(* Calculate (LocalScore).  The cube root of the source is not a rational  *)
(* function: the model keeps whether a score is returned and the two       *)
(* averaged rates the score is computed from.                              *)
(***************************************************************************)
NilScore == [nil |-> TRUE, promptTPS |-> RInt(0), genTPS |-> RInt(0)]

\* Contributes with the sign of the test of the completion rate slipped.
ContributesSignSlip(modelFit) ==
    /\ ~modelFit.nil
    /\ RLess(RInt(0), modelFit.PromptRate)
    /\ RLess(modelFit.CompletionRate, RInt(0))

\* Whether Calculate counts a fit: non-nil with positive rates.
Contributes(modelFit) ==
    /\ ~modelFit.nil
    /\ RLess(RInt(0), modelFit.PromptRate)
    /\ RLess(RInt(0), modelFit.CompletionRate)

\* Calculate returning a score of 0 where it has no fit to count.
CalculateZeroForNone(modelFits) ==
    [nil |-> FALSE, promptTPS |-> RInt(0), genTPS |-> RInt(0)]

\* modelFits is the sequence of (possibly nil) fits handed to Calculate.
Calculate(modelFits) ==
    LET valid == {i \in DOMAIN modelFits : Contributes(modelFits[i])}
        validContexts == Cardinality(valid)
    IN  IF validContexts > 0
        THEN [nil |-> FALSE,
              promptTPS |->
                  RDiv(SumRat(valid, [i \in valid |->
                                  RDiv(RInt(1000), modelFits[i].PromptRate)]),
                       RInt(validContexts)),
              genTPS |->
                  RDiv(SumRat(valid, [i \in valid |->
                                  RDiv(RInt(1000), modelFits[i].CompletionRate)]),
                       RInt(validContexts))]
        ELSE NilScore

(***************************************************************************)
(* Constants of the benchmark.                                             *)
(***************************************************************************)
MaxBenchmarkIterations == 3

\* MinAcceptableRSquared = 0.99
MinAcceptableRSquared == Rat(99, 100)

\* Retained signatures needed for the intermediate fit and for the final fit.
MinIntermediatePoints == 8

MinFinalPoints == 4

BenchmarkConfig(promptLength, maxTokens) ==
    [PromptLength |-> promptLength, MaxTokens |-> maxTokens]

WarmupConfig == BenchmarkConfig(100, 100)

shortContextConfigs ==
    << BenchmarkConfig(100, 1), BenchmarkConfig(100, 100),
       BenchmarkConfig(500, 1), BenchmarkConfig(500, 100) >>

longContextConfigs ==
    << BenchmarkConfig(9000, 1), BenchmarkConfig(9000, 100),
       BenchmarkConfig(10000, 1), BenchmarkConfig(10000, 100) >>

(***************************************************************************)
(* The completion endpoint (environment of ChatCompletion).  A request     *)
(* either fails or reports token usage and takes some time.  The prompt    *)
(* token count follows the prompt length, the completion token count is at *)
(* most max_tokens, and the response time is the server's nominal linear   *)
(* cost plus a jitter allowed by the server profile.                       *)
(***************************************************************************)
\* An endpoint that answers in exactly its nominal time, always completes
\* to max_tokens, and changes between answering and failing at most
\* MaxFlips times in a Run.
NominalProfile == [jitter |-> {0}, early |-> FALSE, flaky |-> FALSE]

\* An endpoint whose response times deviate, that can end a completion
\* early, and of which any request can fail.
NoisyProfile ==
    [jitter |-> {0, MaxJitterMs * TicksPerMs + 1}, early |-> TRUE, flaky |-> TRUE]

TokensOf(promptLength) ==
    CASE promptLength = 100 -> 1
      [] promptLength = 500 -> 2
      [] promptLength = 9000 -> 3
      [] promptLength = 10000 -> 4

CompletionChoices(profile, maxTokens) ==
    IF maxTokens = 1 THEN {1}
    ELSE IF profile.early THEN {1, 2} ELSE {2}

NominalMs(cached, p, c) == IF cached THEN p + 3 * c ELSE 2 * p + 3 * c

\* The usage and timing ChatCompletion can return for a request of config
\* cfg; with the repeated (cached) request the completion is the one of the
\* cold request (temperature 0, fixed seed).
Replies(profile, cfg, cached, coldTokens) ==
    { [PromptTokens |-> TokensOf(cfg.PromptLength),
       CompletionTokens |-> c,
       ResponseTime |->
           NominalMs(cached, TokensOf(cfg.PromptLength), c) * TicksPerMs + j]
      : c \in (IF cached THEN {coldTokens}
               ELSE CompletionChoices(profile, cfg.MaxTokens)),
        j \in profile.jitter }

(***************************************************************************)
(* The messages of a probe.  A string is a sequence of characters.         *)
(***************************************************************************)
\* Length of the stand-in for loremIpsumText.
CorpusLen == 5

\* Longest filler asked of generateLoremIpsum in a direct call.
MaxFiller == 12

\* generateRandomContent(10)
RandomLength == 10

\* time.Sleep(500 * time.Millisecond), in ms
RequestDelayMs == 500

\* Temperature 0.0, TopP 1.0 and Seed 42 of the params of a probe.
Temperature == 0

TopP == 1

Seed == 42

loremIpsumText ==
    SubSeq(<<"L", "o", "r", "e", "m", " ", "i", "p", "s", "u", "m", " ", "d", "o",
             "l", "o", "r", " ", "s", "i", "t">>, 1, CorpusLen)

\* Two of the strings generateRandomContent(10) can return.
RandomStrings ==
    { <<"0", "k", "3", "x", "9", "a", "7", "m", "2", "z">>,
      <<"q", "7", "m", "2", "b", "0", "0", "y", "4", "c">> }

RECURSIVE Repeated(_, _, _)
\* result after `repeats` more passes of the loop `result += loremIpsumText`.
Repeated(result, text, repeats) ==
    IF repeats <= 0 THEN result ELSE Repeated(result \o text, text, repeats - 1)

\* generateLoremIpsum without the truncation to the requested length.
generateLoremIpsumWhole(length) ==
    IF length <= 0 THEN <<>>
    ELSE Repeated(<<>>, loremIpsumText,
                  (length + Len(loremIpsumText) - 1) \div Len(loremIpsumText))

generateLoremIpsum(length) ==
    IF length <= 0 THEN <<>>
    ELSE LET repeats == (length + Len(loremIpsumText) - 1) \div Len(loremIpsumText)
             result == Repeated(<<>>, loremIpsumText, repeats)
         IN  IF Len(result) > length THEN SubSeq(result, 1, length) ELSE result

SeedLabel == <<"s", "e", "e", "d", ":">>

\* The Content of the one message generateMessages returns, `random` being
\* what generateRandomContent(10) returned.
generateMessages(systemContentLength, postfix, random) ==
    SeedLabel \o random \o <<"\n">> \o generateLoremIpsum(systemContentLength)
        \o postfix

\* The same content kept as the parts it is concatenated from, the filler
\* by its length: the contents of the benchmark are thousands of characters.
MessageParts(systemContentLength, postfix, random) ==
    [random |-> random, lorem |-> systemContentLength, postfix |-> postfix]

ChatMessages(content) == <<[Role |-> "user", Content |-> content]>>

\* params of RunWithPromptLength.
ChatCompletionParams(messages, maxCompletionTokens) ==
    [Messages |-> messages, Temperature |-> Temperature, TopP |-> TopP,
     MaxCompletionTokens |-> maxCompletionTokens, Seed |-> Seed]

\* requestBody of ChatCompletion without the seed.
ChatCompletionRequestUnseeded(model, p) ==
    [Model |-> model, Messages |-> p.Messages, Temperature |-> p.Temperature,
     TopP |-> p.TopP, MaxTokens |-> p.MaxCompletionTokens, Seed |-> 0]

\* requestBody of ChatCompletion.
ChatCompletionRequest(model, p) ==
    [Model |-> model, Messages |-> p.Messages, Temperature |-> p.Temperature,
     TopP |-> p.TopP, MaxTokens |-> p.MaxCompletionTokens, Seed |-> p.Seed]

\* The result ChatCompletion builds from the response r.
ResultOf(r, ptr) ==
    [PromptTokens |-> r.PromptTokens, CachedPromptTokens |-> 0,
     CompletionTokens |-> r.CompletionTokens, ResponseTime |-> r.ResponseTime,
     ptr |-> ptr]

\* MarkCached leaving the prompt token count in place.
MarkCachedKeepingPrompt(result) ==
    [result EXCEPT !.CachedPromptTokens = result.PromptTokens]

\* "All prompt was cached": the two assignments to cachedCompletionResult.
MarkCached(result) ==
    [result EXCEPT !.CachedPromptTokens = result.PromptTokens, !.PromptTokens = 0]

\* The delay made only after a request that succeeded.
DelayAfterSuccess(failed) == IF failed THEN 0 ELSE RequestDelayMs

\* The time slept after a call of ChatCompletion, before its error is looked at.
DelayAfter(failed) == RequestDelayMs

(***************************************************************************)
(* State.                                                                  *)
(***************************************************************************)
VARIABLES
    pc,               \* control location of the (single-threaded) program
    srv,              \* profile of the completion endpoint
    up,               \* the endpoint answered its last request
    flips,            \* changes of up in the current Run
    driverType,       \* RunMatrix argument
    matrix,           \* RunMatrix argument: name -> [Values, Output]
    d,                \* the driver created by RunMatrix
    paramCombinations,\* RunMatrix: the generated parameter sets
    idx,              \* RunMatrix: index of the parameter set being run
    matrixResults,    \* RunMatrix: the MatrixResults appended so far
    matrixErr,        \* RunMatrix: its returned error ("" for nil)
    setupDone,        \* Run: d.Teardown() is deferred
    runRet,           \* Run / RunScalingBenchmark: the returned tuple
    panicking,        \* a nil-pointer panic is unwinding the stack
    ctx,              \* "warmup", "short" or "long"
    shortRes,         \* RunScalingBenchmark: shortContextResults, -ModelFit
    shortFit,
    iteration,        \* runContextBenchmark: locals
    ci,
    configsRun,
    bestResults,
    ctxRet,           \* runContextBenchmark: the returned results and fit
    results,          \* RunWithPromptLength: results, returned error
    rwErr,
    coldResult,       \* RunWithPromptLength: completionResult (cold request)
    \* history variables
    offered,          \* results offered to bestResults in this context run
    execCount,        \* per config, the calls of RunWithPromptLength
    iterCalls,        \* calls of RunWithPromptLength in the current iteration
    anyRequest,       \* a request was issued in the current Run
    teardownCalls,    \* calls of d.Teardown() in the current Run
    retVia,           \* which return of runContextBenchmark was taken
    ctxReqs,          \* requests issued in the current context run
    runCount,         \* per parameter set, the calls of Run
    phases,           \* in the current Run: warmups and context runs started,
                      \* context runs returned
    \* a direct call of one of the pure functions
    callArg,          \* its argument
    callRet,          \* its result
    \* what goes over the wire in the current call of RunWithPromptLength
    chatParams,       \* its ChatCompletionParams `params` (<<>> outside a call)
    sent,             \* the request bodies of its calls of ChatCompletion
    replies,          \* the usage and timing those calls got back
    slept,            \* ms of time.Sleep since the last request returned
    lastContent,      \* message content of the call before (<<>> if none)
    teardownRan,      \* the command the Teardown of the current Run ran
    warmupErr         \* RunScalingBenchmark: the warmup returned an error

envVars == <<srv, up, flips>>

matrixVars == <<driverType, matrix, d, paramCombinations, idx, matrixResults,
                matrixErr>>

runVars == <<setupDone, runRet, panicking, teardownCalls, anyRequest>>

scalingVars == <<ctx, shortRes, shortFit>>

ctxVars == <<iteration, ci, configsRun, bestResults, ctxRet, offered, execCount,
             iterCalls, retVia>>

probeVars == <<results, rwErr, coldResult>>

auditVars == <<ctxReqs, runCount, phases>>

callVars == <<callArg, callRet>>

wireVars == <<chatParams, sent, replies, slept, lastContent, teardownRan,
              warmupErr>>

vars == <<pc, envVars, matrixVars, runVars, scalingVars, ctxVars, probeVars,
          auditVars, callVars, wireVars>>

(***************************************************************************)
(* Helpers of runContextBenchmark.                                         *)
(***************************************************************************)
\* configKey, "%d:%d" of the config (injective).
ConfigKey(config) == <<config.PromptLength, config.MaxTokens>>

\* key, "%d:%d:%d" of the token counts of a result (injective).
SignatureKey(result) ==
    <<result.PromptTokens, result.CachedPromptTokens, result.CompletionTokens>>

\* The configs parameter of the current call of runContextBenchmark.
Configs == IF ctx = "long" THEN longContextConfigs ELSE shortContextConfigs

\* The config of the current call of RunWithPromptLength.
CurrentConfig == IF ctx = "warmup" THEN WarmupConfig ELSE Configs[ci]

\* The values of a map, as the slice built by ranging over it (a set: Go
\* iterates a map in no particular order).
MapValues(m) == {m[k] : k \in DOMAIN m}

\* KeepFastest with <= for <: an equally fast duplicate replaces the result.
KeepLatestOfEqual(best, result) ==
    LET key == SignatureKey(result)
    IN  IF key \notin DOMAIN best
           \/ result.ResponseTime <= best[key].ResponseTime
        THEN (key :> result) @@ best
        ELSE best

\* One pass of the loop body that keeps the fastest result per signature.
KeepFastest(best, result) ==
    LET key == SignatureKey(result)
    IN  IF key \notin DOMAIN best
           \/ result.ResponseTime < best[key].ResponseTime
        THEN (key :> result) @@ best
        ELSE best

RECURSIVE KeepFastestAll(_, _)
KeepFastestAll(best, rs) ==
    IF rs = <<>> THEN best
    ELSE KeepFastestAll(KeepFastest(best, Head(rs)), Tail(rs))

SeqToSet(q) == {q[i] : i \in DOMAIN q}

\* MergeResults forgetting the map when the config failed.
MergeResultsOrReset(best, rs, err) ==
    IF err THEN <<>> ELSE KeepFastestAll(best, rs)

\* bestResults after RunWithPromptLength returned (rs, err): an error is
\* logged, the results of a success are merged.
MergeResults(best, rs, err) ==
    IF err THEN best ELSE KeepFastestAll(best, rs)

\* Skipped without the record of the configs run.
SkippedNever(j) == FALSE

\* Whether the loop over the configs skips the config at index j.
Skipped(j) == iteration > 1 /\ ConfigKey(Configs[j]) \in configsRun

\* AcceptableFit asking for more than MinIntermediatePoints signatures.
AcceptableFitAboveMin(best) ==
    /\ Cardinality(DOMAIN best) > MinIntermediatePoints
    /\ RLeq(MinAcceptableRSquared, fitCompletionTimeModel(MapValues(best)).RSquared)

\* The condition of the early return after a config.
AcceptableFit(best) ==
    /\ Cardinality(DOMAIN best) >= MinIntermediatePoints
    /\ RLeq(MinAcceptableRSquared, fitCompletionTimeModel(MapValues(best)).RSquared)

NoCalls == [j \in 1..Len(shortContextConfigs) |-> 0]

NoPhases == [warmup |-> 0, short |-> 0, long |-> 0, returned |-> 0]

\* The identity of the CompletionResult a request allocates: the warmup's
\* are 0, those of the config at index j are 2j-1 (cold) and 2j (repeated).
NewPtr(cached) ==
    IF ctx = "warmup" THEN 0 ELSE IF cached THEN 2 * ci ELSE 2 * ci - 1

(***************************************************************************)
(* The endpoint: whether it answers the next request.                      *)
(***************************************************************************)
HealthChoices ==
    IF srv.flaky \/ flips < MaxFlips THEN BOOLEAN ELSE {up}

Answer(h) ==
    /\ up' = IF srv.flaky THEN up ELSE h
    /\ flips' = IF ~srv.flaky /\ h # up THEN flips + 1 ELSE flips
    /\ anyRequest' = TRUE
    /\ UNCHANGED srv

(***************************************************************************)
(* RunWithPromptLength: the cold request and the repeated request, each    *)
(* followed by the delay and the error check.                              *)
(***************************************************************************)
\* ProbeReturn with the warmup returning to where the results of a config
\* are merged.
ProbeReturnToMerge == "merge"

\* Where RunWithPromptLength returns to.
ProbeReturn == IF ctx = "warmup" THEN "warm_ret" ELSE "merge"

WarmupPostfix == "Just a warmup request."

RunPostfix ==
    "\nI need some filler content. Please generate as much lorem ipsum as you can."

\* The postfix argument of the current call of RunWithPromptLength.
Postfix == IF ctx = "warmup" THEN WarmupPostfix ELSE RunPostfix

\* The params the current call builds when generateRandomContent returns
\* `random`.
ParamsOf(config, random) ==
    ChatCompletionParams(
        ChatMessages(MessageParts(config.PromptLength, Postfix, random)),
        config.MaxTokens)

\* RunWithPromptLength up to the error check of its first request.
ColdRequest ==
    /\ pc = "cold"
    /\ \E random \in RandomStrings :
          /\ chatParams' = ParamsOf(CurrentConfig, random)
          /\ sent' = <<ChatCompletionRequest(d.model, chatParams')>>
    /\ \E h \in HealthChoices :
          /\ Answer(h)
          /\ slept' = DelayAfter(~h)
          /\ IF ~h
             THEN /\ rwErr' = TRUE
                  /\ results' = <<>>
                  /\ coldResult' = <<>>
                  /\ replies' = <<>>
                  /\ pc' = ProbeReturn
             ELSE \E r \in Replies(srv, CurrentConfig, FALSE, 0) :
                    LET completionResult == ResultOf(r, NewPtr(FALSE))
                    IN  /\ rwErr' = FALSE
                        /\ results' = <<completionResult>>
                        /\ coldResult' = <<completionResult>>
                        /\ replies' = <<r>>
                        /\ pc' = "cached"
    /\ UNCHANGED <<matrixVars, setupDone, runRet, panicking, teardownCalls,
                   scalingVars, ctxVars>>
    /\ ctxReqs' = IF ctx = "warmup" THEN ctxReqs ELSE ctxReqs + 1
    /\ UNCHANGED <<runCount, phases>>
    /\ UNCHANGED callVars
    /\ UNCHANGED <<lastContent, teardownRan, warmupErr>>

\* CachedRequest returning the cold result along with the error.
CachedRequestKeepingCold ==
    /\ pc = "cached"
    /\ sent' = Append(sent, ChatCompletionRequest(d.model, chatParams))
    /\ \E h \in HealthChoices :
          /\ Answer(h)
          /\ slept' = DelayAfter(~h)
          /\ IF ~h
             THEN /\ rwErr' = TRUE
                  /\ results' = results
                  /\ replies' = replies
                  /\ pc' = ProbeReturn
             ELSE \E r \in Replies(srv, CurrentConfig, TRUE,
                                   coldResult[1].CompletionTokens) :
                    LET cachedCompletionResult ==
                          MarkCached(ResultOf(r, NewPtr(TRUE)))
                    IN  /\ rwErr' = FALSE
                        /\ results' = Append(results, cachedCompletionResult)
                        /\ replies' = Append(replies, r)
                        /\ pc' = ProbeReturn
    /\ UNCHANGED <<matrixVars, setupDone, runRet, panicking, teardownCalls,
                   scalingVars, ctxVars, coldResult>>
    /\ ctxReqs' = IF ctx = "warmup" THEN ctxReqs ELSE ctxReqs + 1
    /\ UNCHANGED <<runCount, phases>>
    /\ UNCHANGED callVars
    /\ UNCHANGED <<chatParams, lastContent, teardownRan, warmupErr>>

\* The repeated request, its delay and its error check.
CachedRequest ==
    /\ pc = "cached"
    /\ sent' = Append(sent, ChatCompletionRequest(d.model, chatParams))
    /\ \E h \in HealthChoices :
          /\ Answer(h)
          /\ slept' = DelayAfter(~h)
          /\ IF ~h
             THEN /\ rwErr' = TRUE
                  /\ results' = <<>>
                  /\ replies' = replies
                  /\ pc' = ProbeReturn
             ELSE \E r \in Replies(srv, CurrentConfig, TRUE,
                                   coldResult[1].CompletionTokens) :
                    LET cachedCompletionResult ==
                          MarkCached(ResultOf(r, NewPtr(TRUE)))
                    IN  /\ rwErr' = FALSE
                        /\ results' = Append(results, cachedCompletionResult)
                        /\ replies' = Append(replies, r)
                        /\ pc' = ProbeReturn
    /\ UNCHANGED <<matrixVars, setupDone, runRet, panicking, teardownCalls,
                   scalingVars, ctxVars, coldResult>>
    /\ ctxReqs' = IF ctx = "warmup" THEN ctxReqs ELSE ctxReqs + 1
    /\ UNCHANGED <<runCount, phases>>
    /\ UNCHANGED callVars
    /\ UNCHANGED <<chatParams, lastContent, teardownRan, warmupErr>>

\* RunWithPromptLength has returned: its locals are gone.
ProbeFrameGone ==
    /\ results' = <<>>
    /\ rwErr' = FALSE
    /\ coldResult' = <<>>
    /\ chatParams' = <<>>
    /\ sent' = <<>>
    /\ replies' = <<>>
    /\ lastContent' = chatParams.Messages[1].Content
    /\ UNCHANGED <<slept, teardownRan>>

(***************************************************************************)
(* runContextBenchmark.                                                    *)
(***************************************************************************)
\* ContextStart with the map of the long context run starting from the
\* results of the short one.
ContextStartFromShort ==
    /\ pc = "ctx_entry"
    /\ bestResults' = IF ctx = "long" THEN KeepFastestAll(<<>>, SliceOf(shortRes))
                       ELSE <<>>
    /\ configsRun' = {}
    /\ iteration' = 1
    /\ ci' = 1
    /\ offered' = {}
    /\ execCount' = NoCalls
    /\ iterCalls' = 0
    /\ retVia' = "none"
    /\ ctxRet' = [Results |-> {}, Fit |-> NilFit]
    /\ pc' = "loop"
    /\ UNCHANGED <<envVars, matrixVars, runVars, scalingVars, probeVars>>
    /\ ctxReqs' = 0
    /\ phases' = [phases EXCEPT ![ctx] = @ + 1]
    /\ UNCHANGED runCount
    /\ UNCHANGED callVars
    /\ UNCHANGED wireVars

\* runContextBenchmark up to its loops: a new map and a new record of the
\* configs run.
ContextStart ==
    /\ pc = "ctx_entry"
    /\ bestResults' = <<>>
    /\ configsRun' = {}
    /\ iteration' = 1
    /\ ci' = 1
    /\ offered' = {}
    /\ execCount' = NoCalls
    /\ iterCalls' = 0
    /\ retVia' = "none"
    /\ ctxRet' = [Results |-> {}, Fit |-> NilFit]
    /\ pc' = "loop"
    /\ UNCHANGED <<envVars, matrixVars, runVars, scalingVars, probeVars>>
    /\ ctxReqs' = 0
    /\ phases' = [phases EXCEPT ![ctx] = @ + 1]
    /\ UNCHANGED runCount
    /\ UNCHANGED callVars
    /\ UNCHANGED wireVars

\* The head of the loop over the configs: skip the configs already run in a
\* previous iteration, mark the next one as run and call RunWithPromptLength.
NextConfig ==
    /\ pc = "loop"
    /\ LET todo == {j \in ci..Len(Configs) : ~Skipped(j)}
       IN  IF todo = {}
           THEN /\ pc' = "iter_end"
                /\ ci' = Len(Configs) + 1
                /\ UNCHANGED <<configsRun, execCount, iterCalls>>
           ELSE LET j == CHOOSE j \in todo : \A k \in todo : j <= k
                IN  /\ ci' = j
                    /\ configsRun' = configsRun \cup {ConfigKey(Configs[j])}
                    /\ execCount' = [execCount EXCEPT ![j] = @ + 1]
                    /\ iterCalls' = iterCalls + 1
                    /\ pc' = "cold"
    /\ UNCHANGED <<envVars, matrixVars, runVars, scalingVars, iteration,
                   bestResults, ctxRet, offered, retVia, probeVars>>
    /\ UNCHANGED auditVars
    /\ UNCHANGED callVars
    /\ UNCHANGED wireVars

\* After RunWithPromptLength returned: log the error or merge the results,
\* then try the intermediate fit.
ProcessResults ==
    /\ pc = "merge"
    /\ LET merged == MergeResults(bestResults, results, rwErr)
       IN  /\ bestResults' = merged
           /\ offered' = IF rwErr THEN offered ELSE offered \cup SeqToSet(results)
           /\ IF AcceptableFit(merged)
              THEN /\ ctxRet' = [Results |-> MapValues(merged),
                                 Fit |-> fitCompletionTimeModel(MapValues(merged))]
                   /\ retVia' = "early"
                   /\ pc' = "ctx_ret"
                   /\ ci' = ci
              ELSE /\ ci' = ci + 1
                   /\ pc' = "loop"
                   /\ UNCHANGED <<ctxRet, retVia>>
    /\ ProbeFrameGone
    /\ UNCHANGED warmupErr
    /\ UNCHANGED <<envVars, matrixVars, runVars, scalingVars, iteration,
                   configsRun, execCount, iterCalls>>
    /\ UNCHANGED auditVars
    /\ UNCHANGED callVars

\* FinalFit fitting whatever there is.
FinalFitOfAny(contextResults) == fitCompletionTimeModel(contextResults)

\* modelFit of the return at the end of an iteration.
FinalFit(contextResults) ==
    IF Cardinality(contextResults) >= MinFinalPoints
    THEN fitCompletionTimeModel(contextResults)
    ELSE NilFit

\* EndIteration without the test for the last iteration.
EndIterationUncounted ==
    /\ pc = "iter_end"
    /\ LET contextResults == MapValues(bestResults)
       IN  IF Cardinality(contextResults) < MinFinalPoints
           THEN /\ ctxRet' = [Results |-> contextResults,
                              Fit |-> FinalFit(contextResults)]
                /\ retVia' = "final"
                /\ pc' = "ctx_ret"
                /\ UNCHANGED <<iteration, ci, iterCalls>>
           ELSE /\ iteration' = iteration + 1
                /\ ci' = 1
                /\ iterCalls' = 0
                /\ pc' = "loop"
                /\ UNCHANGED <<ctxRet, retVia>>
    /\ UNCHANGED <<envVars, matrixVars, runVars, scalingVars, configsRun,
                   bestResults, offered, execCount, probeVars>>
    /\ UNCHANGED auditVars
    /\ UNCHANGED callVars
    /\ UNCHANGED wireVars

\* The end of an iteration: return what there is, or go round again.
EndIteration ==
    /\ pc = "iter_end"
    /\ LET contextResults == MapValues(bestResults)
       IN  IF iteration = MaxBenchmarkIterations
              \/ Cardinality(contextResults) < MinFinalPoints
           THEN /\ ctxRet' = [Results |-> contextResults,
                              Fit |-> FinalFit(contextResults)]
                /\ retVia' = "final"
                /\ pc' = "ctx_ret"
                /\ UNCHANGED <<iteration, ci, iterCalls>>
           ELSE /\ iteration' = iteration + 1
                /\ ci' = 1
                /\ iterCalls' = 0
                /\ pc' = "loop"
                /\ UNCHANGED <<ctxRet, retVia>>
    /\ UNCHANGED <<envVars, matrixVars, runVars, scalingVars, configsRun,
                   bestResults, offered, execCount, probeVars>>
    /\ UNCHANGED auditVars
    /\ UNCHANGED callVars
    /\ UNCHANGED wireVars

(***************************************************************************)
(* Drivers (package driver).  A nil driver is the record of kind "none".   *)
(***************************************************************************)
NoDriver ==
    [kind |-> "none", url |-> "", model |-> "", setupCmd |-> "", teardownCmd |-> ""]

NewDummyDriver ==
    [kind |-> "dummy", url |-> "", model |-> "", setupCmd |-> "", teardownCmd |-> ""]

NewLocalCmdDriver ==
    [kind |-> "local_cmd", url |-> "", model |-> "", setupCmd |-> "",
     teardownCmd |-> ""]

\* NewDriver accepting any driver type.
SupportedDriverAny(type) == TRUE

SupportedDriver(type) == type \in {"dummy", "local_cmd"}

NewDriver(type) == IF type = "dummy" THEN NewDummyDriver ELSE NewLocalCmdDriver

\* params[name].(string), "" when absent.
ParamString(params, name) == IF name \in DOMAIN params THEN params[name] ELSE ""

\* What the setup command of the local_cmd driver can print: nothing of
\* interest, or the URL of the service it started.
SetupOutputs == {"", "http://started"}

\* (*DummyDriver).Setup: url and model are taken whenever params holds them.
DummySetup(drv, params) ==
    [drv EXCEPT !.url = IF "url" \in DOMAIN params THEN params["url"] ELSE @,
                !.model = IF "model" \in DOMAIN params THEN params["model"] ELSE @]

\* (*LocalCmdDriver).Setup up to the test of the setup command: url and
\* model are taken only when params holds them and they are not empty.
LocalCmdTake(drv, params) ==
    [drv EXCEPT !.url = IF ParamString(params, "url") # "" THEN params["url"] ELSE @,
                !.model = IF ParamString(params, "model") # ""
                          THEN params["model"] ELSE @]

\* (*LocalCmdDriver).Setup from there on: the commands are stored and the
\* setup command is run; it fails, or prints `output`.
LocalCmdRun(drv, params, output) ==
    [drv EXCEPT !.setupCmd = params["setup_cmd"],
                !.teardownCmd = IF "teardown_cmd" \in DOMAIN params
                                THEN params["teardown_cmd"] ELSE @,
                !.url = IF output # "" THEN output ELSE @]

\* The outcomes of drv.Setup(params): the driver afterwards and whether an
\* error is returned.  The setup command of the local_cmd driver is a shell
\* command, it can fail.
Setup(drv, params) ==
    IF drv.kind = "dummy"
    THEN {[d |-> DummySetup(drv, params), err |-> FALSE]}
    ELSE IF ParamString(params, "setup_cmd") = ""
    THEN {[d |-> LocalCmdTake(drv, params), err |-> FALSE]}
    ELSE {[d |-> LocalCmdRun(LocalCmdTake(drv, params), params, ""), err |-> TRUE]}
         \cup {[d |-> LocalCmdRun(LocalCmdTake(drv, params), params, output),
                 err |-> FALSE] : output \in SetupOutputs}

\* The command drv.Teardown() runs, "" when it runs none.
Teardown(drv) == IF drv.kind = "local_cmd" THEN drv.teardownCmd ELSE ""

(***************************************************************************)
(* The parameter matrix and its combinations.                              *)
(***************************************************************************)
\* All the orders in which the keys of a map can be iterated.
Orders(S) ==
    {q \in [1..Cardinality(S) -> S] : \A i, j \in DOMAIN q : i # j => q[i] # q[j]}

\* The maps made while the combinations are generated, each at its own
\* address (its place in `maps`), and the slice `result` of addresses.
MapsMade(maps, result) == [maps |-> maps, result |-> result]

\* The leaf of generateCombinations handing out the map `current` itself
\* (append(result, current)) instead of a copy of it.
AppendCurrent(made, current) ==
    MapsMade(made.maps, Append(made.result, current))

\* The leaf of generateCombinations: a new map with the entries of `current`
\* is appended to the result.
AppendCopy(made, current) ==
    LET combination == Len(made.maps) + 1
    IN  MapsMade(Append(made.maps, made.maps[current]),
                 Append(made.result, combination))

RECURSIVE generateCombinations(_, _, _, _, _)
RECURSIVE CombinationsOfValue(_, _, _, _, _, _)
\* generateCombinations, index counted from 1; `current` is the address of
\* the one map all the calls write to.
generateCombinations(keys, valuesList, index, current, made) ==
    IF index = Len(keys) + 1
    THEN AppendCopy(made, current)
    ELSE CombinationsOfValue(keys, valuesList, index, current, made, 1)

\* Its loop over the values of parameter index, from value vi on.
CombinationsOfValue(keys, valuesList, index, current, made, vi) ==
    IF vi > Len(valuesList[index]) THEN made
    ELSE LET written ==
                 [made EXCEPT !.maps[current] =
                      (keys[index] :> valuesList[index][vi]) @@ @]
         IN  CombinationsOfValue(keys, valuesList, index, current,
                 generateCombinations(keys, valuesList, index + 1, current,
                                      written),
                 vi + 1)

\* generateParamCombinations for one order of iteration over the matrix:
\* the maps it made and the addresses it returns.
CombinationsMade(m, order) ==
    LET kept == SelectSeq(order, LAMBDA k : Len(m[k].Values) > 0)
        valuesList == [i \in DOMAIN kept |-> m[kept[i]].Values]
    IN  IF DOMAIN m = {} \/ kept = <<>> THEN MapsMade(<<>>, <<>>)
        ELSE generateCombinations(kept, valuesList, 1, 1,
                                  MapsMade(<<<<>>>>, <<>>))

\* The parameter sets it returns.
generateParamCombinations(m, order) ==
    LET made == CombinationsMade(m, order)
    IN  [i \in DOMAIN made.result |-> made.maps[made.result[i]]]

ParameterConfig(values, output) == [Values |-> values, Output |-> output]

\* The matrices and driver types RunMatrix is called with.
OneSetMatrix ==
    [setup_cmd |-> ParameterConfig(<<"up">>, FALSE),
     teardown_cmd |-> ParameterConfig(<<"down">>, FALSE)]

TwoSetMatrix ==
    [setup_cmd |-> ParameterConfig(<<"up", "">>, TRUE),
     teardown_cmd |-> ParameterConfig(<<"down">>, FALSE)]

EmptyMatrix == <<>>

\* A parameter without a value next to one with a value.
SparseMatrix ==
    [setup_cmd |-> ParameterConfig(<<"up">>, FALSE),
     url |-> ParameterConfig(<<>>, FALSE)]

\* No parameter has a value.
NoValueMatrix ==
    [setup_cmd |-> ParameterConfig(<<>>, FALSE),
     url |-> ParameterConfig(<<>>, TRUE)]

Scenarios ==
    { [driverType |-> "local_cmd", matrix |-> TwoSetMatrix],
      [driverType |-> "dummy", matrix |-> OneSetMatrix],
      [driverType |-> "", matrix |-> SparseMatrix],
      [driverType |-> "bogus", matrix |-> OneSetMatrix],
      [driverType |-> "dummy", matrix |-> EmptyMatrix],
      [driverType |-> "dummy", matrix |-> NoValueMatrix] }

(***************************************************************************)
(* RunMatrix, Run and RunScalingBenchmark.                                 *)
(***************************************************************************)
RunResult(res, short, long, err) ==
    [Results |-> res, Short |-> short, Long |-> long, Err |-> err]

NoRunResult == RunResult({}, NilFit, NilFit, "")

NoContextResult == [Results |-> {}, Fit |-> NilFit]

\* The locals of a returned call of runContextBenchmark are gone.
ContextFrameGone ==
    /\ iteration' = 1
    /\ ci' = 1
    /\ configsRun' = {}
    /\ bestResults' = <<>>
    /\ offered' = {}
    /\ execCount' = NoCalls
    /\ iterCalls' = 0
    /\ retVia' = "none"

\* RunMatrix up to its loop: create the driver, generate the combinations.
RunMatrixStart ==
    /\ pc = "matrix"
    /\ IF driverType # "" /\ ~SupportedDriver(driverType)
       THEN /\ matrixErr' = "failed to create driver"
            /\ pc' = "done"
            /\ UNCHANGED <<d, paramCombinations>>
       ELSE /\ d' = IF driverType = "" THEN NoDriver ELSE NewDriver(driverType)
            /\ \E order \in Orders(DOMAIN matrix) :
                  paramCombinations' = generateParamCombinations(matrix, order)
            /\ IF paramCombinations' = <<>>
               THEN /\ matrixErr' = "no parameter combinations generated from matrix"
                    /\ pc' = "done"
               ELSE /\ matrixErr' = ""
                    /\ pc' = "run"
    /\ UNCHANGED <<envVars, driverType, matrix, idx, matrixResults, runVars,
                   scalingVars, ctxVars, probeVars>>
    /\ runCount' = [i \in DOMAIN paramCombinations' |-> 0]
    /\ UNCHANGED <<ctxReqs, phases>>
    /\ UNCHANGED callVars
    /\ UNCHANGED wireVars

\* Deferred with the defer statement ahead of the call of Setup.
DeferredBeforeSetup(drv, err) == drv.kind # "none"

\* Whether Run has deferred d.Teardown() once d.Setup has returned err.
Deferred(drv, err) == drv.kind # "none" /\ ~err

\* Run: set the driver up, defer its Teardown, and enter RunScalingBenchmark
\* with the warmup call of RunWithPromptLength.
RunSetup ==
    /\ pc = "run"
    /\ teardownCalls' = 0
    /\ anyRequest' = FALSE
    /\ panicking' = FALSE
    /\ flips' = 0
    /\ \E out \in (IF d.kind = "none" THEN {[d |-> d, err |-> FALSE]}
                   ELSE Setup(d, paramCombinations[idx])) :
          /\ d' = out.d
          /\ setupDone' = Deferred(d, out.err)
          /\ IF out.err
             THEN /\ runRet' = RunResult({}, NilFit, NilFit, "driver setup failed")
                  /\ pc' = "teardown"
                  /\ UNCHANGED <<ctx, up>>
             ELSE /\ runRet' = NoRunResult
                  /\ ctx' = "warmup"
                  /\ up' \in (IF srv.flaky THEN {up} ELSE BOOLEAN)
                  /\ pc' = "cold"
    /\ UNCHANGED <<srv, driverType, matrix, paramCombinations, idx, matrixResults,
                   matrixErr, shortRes, shortFit, ctxVars, probeVars>>
    /\ runCount' = [runCount EXCEPT ![idx] = @ + 1]
    /\ phases' = IF pc' = "cold" THEN [NoPhases EXCEPT !.warmup = 1] ELSE NoPhases
    /\ UNCHANGED ctxReqs
    /\ UNCHANGED callVars
    /\ slept' = 0
    /\ lastContent' = <<>>
    /\ teardownRan' = ""
    /\ warmupErr' = FALSE
    /\ UNCHANGED <<chatParams, sent, replies>>

\* WarmupDone going on with the long context run in place of the short one.
WarmupDoneIntoLong ==
    /\ pc = "warm_ret"
    /\ ctx' = "long"
    /\ ProbeFrameGone
    /\ warmupErr' = rwErr
    /\ pc' = "ctx_entry"
    /\ UNCHANGED <<envVars, matrixVars, runVars, shortRes, shortFit, ctxVars>>
    /\ UNCHANGED auditVars
    /\ UNCHANGED callVars

\* RunScalingBenchmark after the warmup: its error is only logged.
WarmupDone ==
    /\ pc = "warm_ret"
    /\ ctx' = "short"
    /\ ProbeFrameGone
    /\ warmupErr' = rwErr
    /\ pc' = "ctx_entry"
    /\ UNCHANGED <<envVars, matrixVars, runVars, shortRes, shortFit, ctxVars>>
    /\ UNCHANGED auditVars
    /\ UNCHANGED callVars

\* RunScalingBenchmark receiving the return of a context run.
ContextReturn ==
    /\ pc = "ctx_ret"
    /\ IF ctx = "short"
       THEN /\ shortRes' = ctxRet.Results
            /\ shortFit' = ctxRet.Fit
            /\ ctxRet' = NoContextResult
            /\ ctx' = "long"
            /\ pc' = "ctx_entry"
       ELSE /\ pc' = "combine"
            /\ UNCHANGED <<ctx, shortRes, shortFit, ctxRet>>
    /\ ContextFrameGone
    /\ UNCHANGED <<envVars, matrixVars, runVars, probeVars>>
    /\ ctxReqs' = 0
    /\ phases' = [phases EXCEPT !.returned = @ + 1]
    /\ UNCHANGED runCount
    /\ UNCHANGED callVars
    /\ UNCHANGED wireVars

\* The end of RunScalingBenchmark: the all-failed error, or the summary log
\* line, which dereferences both fits, and the return.
ScalingFinish ==
    /\ pc = "combine"
    /\ LET longRes == ctxRet.Results
           longFit == ctxRet.Fit
           allResults == shortRes \cup longRes
       IN  IF shortRes = {} /\ longRes = {}
           THEN /\ runRet' = RunResult(allResults, NilFit, NilFit,
                                       "all benchmark configurations failed")
                /\ UNCHANGED panicking
           ELSE IF shortFit.nil \/ longFit.nil
           THEN /\ panicking' = TRUE
                /\ UNCHANGED runRet
           ELSE /\ runRet' = RunResult(allResults, shortFit, longFit, "")
                /\ UNCHANGED panicking
    /\ pc' = "teardown"
    /\ UNCHANGED <<envVars, matrixVars, setupDone, teardownCalls, anyRequest,
                   scalingVars, ctxVars, probeVars>>
    /\ UNCHANGED auditVars
    /\ UNCHANGED callVars
    /\ UNCHANGED wireVars

\* RunTeardown with Teardown called after RunScalingBenchmark returned
\* instead of deferred: a panic passes it by.
RunTeardownNotDeferred ==
    /\ pc = "teardown"
    /\ teardownCalls' = IF setupDone /\ ~panicking THEN teardownCalls + 1
                        ELSE teardownCalls
    /\ pc' = IF panicking THEN "crashed" ELSE "record"
    /\ UNCHANGED <<envVars, matrixVars, setupDone, runRet, panicking, anyRequest,
                   scalingVars, ctxVars, probeVars>>
    /\ UNCHANGED auditVars
    /\ UNCHANGED callVars
    /\ teardownRan' = IF setupDone /\ ~panicking THEN Teardown(d) ELSE teardownRan
    /\ UNCHANGED <<chatParams, sent, replies, slept, lastContent, warmupErr>>

\* Run returning (or unwinding): the deferred d.Teardown().  A panic that
\* nothing recovers ends the process.
RunTeardown ==
    /\ pc = "teardown"
    /\ teardownCalls' = IF setupDone THEN teardownCalls + 1 ELSE teardownCalls
    /\ pc' = IF panicking THEN "crashed" ELSE "record"
    /\ UNCHANGED <<envVars, matrixVars, setupDone, runRet, panicking, anyRequest,
                   scalingVars, ctxVars, probeVars>>
    /\ UNCHANGED auditVars
    /\ UNCHANGED callVars
    /\ teardownRan' = IF setupDone THEN Teardown(d) ELSE teardownRan
    /\ UNCHANGED <<chatParams, sent, replies, slept, lastContent, warmupErr>>

\* LocalScoreOf calling Calculate whatever the fits, for a score that is
\* never absent.
LocalScoreOfAny(shortContextModelFit, longContextModelFit) ==
    CalculateZeroForNone(<<shortContextModelFit, longContextModelFit>>)

\* localScore of RunMatrix.
LocalScoreOf(shortContextModelFit, longContextModelFit) ==
    IF ~shortContextModelFit.nil \/ ~longContextModelFit.nil
    THEN Calculate(<<shortContextModelFit, longContextModelFit>>)
    ELSE NilScore

\* RunMatrix after Run returned: the LocalScore and the MatrixResult.
RecordResult ==
    /\ pc = "record"
    /\ LET localScore == LocalScoreOf(runRet.Short, runRet.Long)
           matrixResult ==
               [Params |-> paramCombinations[idx],
                Results |-> runRet.Results,
                ShortContextModelFit |-> runRet.Short,
                LongContextModelFit |-> runRet.Long,
                LocalScore |-> localScore,
                Error |-> runRet.Err]
       IN  matrixResults' = Append(matrixResults, matrixResult)
    /\ IF idx < Len(paramCombinations)
       THEN idx' = idx + 1 /\ pc' = "run"
       ELSE idx' = idx /\ pc' = "done"
    /\ runRet' = NoRunResult
    /\ ctx' = "warmup"
    /\ shortRes' = {}
    /\ shortFit' = NilFit
    /\ ctxRet' = NoContextResult
    /\ UNCHANGED <<envVars, driverType, matrix, d, paramCombinations, matrixErr,
                   setupDone, panicking, teardownCalls, anyRequest,
                   iteration, ci, configsRun, bestResults, offered, execCount,
                   iterCalls, retVia, probeVars>>
    /\ UNCHANGED auditVars
    /\ UNCHANGED callVars
    /\ UNCHANGED wireVars

(***************************************************************************)
(* Specifications.                                                         *)
(***************************************************************************)
IdleProbe ==
    /\ results = <<>>
    /\ rwErr = FALSE
    /\ coldResult = <<>>

IdleContext ==
    /\ iteration = 1
    /\ ci = 1
    /\ configsRun = {}
    /\ bestResults = <<>>
    /\ ctxRet = NoContextResult
    /\ offered = {}
    /\ execCount = NoCalls
    /\ iterCalls = 0
    /\ retVia = "none"

IdleAudit ==
    /\ ctxReqs = 0
    /\ runCount = <<>>
    /\ phases = NoPhases

IdleCall ==
    /\ callArg = <<>>
    /\ callRet = <<>>

IdleWire ==
    /\ chatParams = <<>>
    /\ sent = <<>>
    /\ replies = <<>>
    /\ slept = 0
    /\ lastContent = <<>>
    /\ teardownRan = ""
    /\ warmupErr = FALSE

\* Nothing of the benchmark has run.
IdleBenchmark ==
    /\ srv = NominalProfile
    /\ up = TRUE
    /\ flips = 0
    /\ d = NoDriver
    /\ paramCombinations = <<>>
    /\ idx = 1
    /\ matrixResults = <<>>
    /\ matrixErr = ""
    /\ setupDone = FALSE
    /\ runRet = NoRunResult
    /\ panicking = FALSE
    /\ anyRequest = FALSE
    /\ teardownCalls = 0
    /\ ctx = "warmup"
    /\ shortRes = {}
    /\ shortFit = NilFit
    /\ IdleContext
    /\ IdleProbe
    /\ IdleAudit
    /\ IdleWire

\* A call of RunMatrix, against the nominal endpoint.
Init ==
    /\ pc = "matrix"
    /\ \E sc \in Scenarios : driverType = sc.driverType /\ matrix = sc.matrix
    /\ IdleBenchmark
    /\ IdleCall

Next ==
    \/ RunMatrixStart
    \/ RunSetup
    \/ ColdRequest
    \/ CachedRequest
    \/ WarmupDone
    \/ ContextStart
    \/ NextConfig
    \/ ProcessResults
    \/ EndIteration
    \/ ContextReturn
    \/ ScalingFinish
    \/ RunTeardown
    \/ RecordResult

Spec == Init /\ [][Next]_vars

\* The short-context call of runContextBenchmark of a Run with the dummy
\* driver, after the warmup, against the noisy endpoint.
InitCtx ==
    /\ pc = "ctx_entry"
    /\ srv = NoisyProfile
    /\ up = TRUE
    /\ flips = 0
    /\ driverType = "dummy"
    /\ matrix = OneSetMatrix
    /\ d = NewDummyDriver
    /\ paramCombinations \in
         {generateParamCombinations(OneSetMatrix, o) : o \in Orders(DOMAIN OneSetMatrix)}
    /\ idx = 1
    /\ matrixResults = <<>>
    /\ matrixErr = ""
    /\ setupDone = TRUE
    /\ runRet = NoRunResult
    /\ panicking = FALSE
    /\ anyRequest = TRUE
    /\ teardownCalls = 0
    /\ ctx = "short"
    /\ shortRes = {}
    /\ shortFit = NilFit
    /\ IdleContext
    /\ IdleProbe
    /\ ctxReqs = 0
    /\ runCount = <<1>>
    /\ phases = [NoPhases EXCEPT !.warmup = 1]
    /\ IdleCall
    /\ chatParams = <<>>
    /\ sent = <<>>
    /\ replies = <<>>
    /\ slept = RequestDelayMs
    /\ lastContent \in {MessageParts(WarmupConfig.PromptLength, WarmupPostfix, random) :
                           random \in RandomStrings}
    /\ teardownRan = ""
    /\ warmupErr = FALSE

NextCtx ==
    \/ ContextStart
    \/ NextConfig
    \/ ColdRequest
    \/ CachedRequest
    \/ ProcessResults
    \/ EndIteration

SpecCtx == InitCtx /\ [][NextCtx]_vars

(***************************************************************************)
(* Direct calls of Calculate.                                              *)
(***************************************************************************)
\* The rates of the fits Calculate is called with, in ms per token.
CalcRates == {RInt(0), Rat(1, 100), RInt(2), RInt(-1)}

\* The fits Calculate is called with: nil, the fit of fewer than two
\* results, the fallback, and fits of every combination of CalcRates.
CalcFits ==
    {NilFit, fitCompletionTimeModel({}), FallbackFit}
       \cup {ModelFitResult(a, Rat(1, 1000), c, RInt(1)) : a, c \in CalcRates}

\* The slices of at most MaxFits fits.
CalcInputs == UNION {[1..n -> CalcFits] : n \in 0..MaxFits}

InitCalc ==
    /\ pc = "calc_call"
    /\ driverType = ""
    /\ matrix = EmptyMatrix
    /\ IdleBenchmark
    /\ callArg \in CalcInputs
    /\ callRet = <<>>

CalculateCall ==
    /\ pc = "calc_call"
    /\ callRet' = Calculate(callArg)
    /\ pc' = "calc_ret"
    /\ UNCHANGED <<envVars, matrixVars, runVars, scalingVars, ctxVars, probeVars,
                   auditVars, callArg, wireVars>>

NextCalc == CalculateCall

SpecCalc == InitCalc /\ [][NextCalc]_vars

(***************************************************************************)
(* Direct calls of fitCompletionTimeModel.                                 *)
(***************************************************************************)
CompletionResult(p, cp, c, t) ==
    [PromptTokens |-> p, CachedPromptTokens |-> cp, CompletionTokens |-> c,
     ResponseTime |-> t]

\* The results of the direct calls with any token counts: prompt tokens,
\* cached prompt tokens, completion tokens, and a response time of 2 ms or
\* of 9 ms and a tick.
ObsPool ==
    {CompletionResult(o[1], o[2], o[3],
                      IF o[4] = 2 THEN 2 * TicksPerMs ELSE 9 * TicksPerMs + 1) :
       o \in {<<0, 0, 1, 2>>, <<0, 1, 1, 9>>, <<2, 0, 1, 9>>, <<2, 1, 2, 2>>,
              <<0, 0, 1, 9>>, <<2, 0, 1, 2>>, <<0, 1, 1, 2>>, <<2, 0, 2, 2>>}}

\* The token counts shared by all the results of a call, and their times.
SamePool == {<<0, 1, 2>>, <<2, 1, 1>>, <<730, 444, 732>>}

SameTimes == {189 * TicksPerMs, 1778 * TicksPerMs}

\* The token counts of the noiseless results.
NoiselessPool ==
    {<<2, 0, 1>>, <<0, 2, 1>>, <<2, 2, 2>>, <<4, 1, 1>>, <<2, 1, 2>>, <<0, 0, 2>>}

\* The response time of a server that takes 2 ms per prompt token, 0.5 ms
\* per cached prompt token and 30 ms per completion token, exactly; the
\* clock can express it when its resolution divides the half millisecond.
NoiselessTicks2(k) == (4 * k[1] + k[2] + 60 * k[3]) * TicksPerMs

NoiselessTime(k) == NoiselessTicks2(k) \div 2

Expressible(k) == NoiselessTicks2(k) % 2 = 0

\* The sets of n to m elements of S.
SubsetsOfSize(S, n, m) == {T \in SUBSET S : Cardinality(T) \in n..m}

\* The arguments of the direct calls: results of any token counts and
\* times; results that all have the same token counts; results with the
\* noiseless times.
FitInputs ==
    {[family |-> "any", results |-> SliceOf(T)] :
        T \in SubsetsOfSize(ObsPool, 0, MaxObs)}
    \cup
    {[family |-> "same",
      results |-> [i \in DOMAIN q |-> CompletionResult(k[1], k[2], k[3], q[i])]] :
        k \in SamePool, q \in UNION {[1..n -> SameTimes] : n \in 2..MaxSame}}
    \cup
    {[family |-> "noiseless",
      results |-> SliceOf({CompletionResult(k[1], k[2], k[3], NoiselessTime(k)) :
                             k \in T})] :
        T \in SubsetsOfSize({k \in NoiselessPool : Expressible(k)}, 2, MaxObs)}

InitFit ==
    /\ pc = "fit_call"
    /\ driverType = ""
    /\ matrix = EmptyMatrix
    /\ IdleBenchmark
    /\ callArg \in FitInputs
    /\ callRet = <<>>

FitCall ==
    /\ pc = "fit_call"
    /\ callRet' = fitCompletionTimeModelIn(Binary64, callArg.results)
    /\ pc' = "fit_ret"
    /\ UNCHANGED <<envVars, matrixVars, runVars, scalingVars, ctxVars, probeVars,
                   auditVars, callArg, wireVars>>

NextFit == FitCall

SpecFit == InitFit /\ [][NextFit]_vars

(***************************************************************************)
(* Direct calls of generateParamCombinations.                              *)
(***************************************************************************)
ParamNames == {"setup_cmd", "teardown_cmd", "model"}

ValueNames == <<"v1", "v2", "v3", "v4">>

\* The matrices of the direct calls: any of the parameters, each with a
\* list of 0 to MaxValues different values.
CombMatrices ==
    UNION {[K -> {ParameterConfig(SubSeq(ValueNames, 1, n), FALSE) :
                    n \in 0..MaxValues}] : K \in SUBSET ParamNames}

\* A matrix and the order in which its keys happen to be iterated.
CombInputs ==
    UNION {{[matrix |-> m, order |-> o] : o \in Orders(DOMAIN m)} :
             m \in CombMatrices}

InitComb ==
    /\ pc = "comb_call"
    /\ driverType = ""
    /\ matrix = EmptyMatrix
    /\ IdleBenchmark
    /\ callArg \in CombInputs
    /\ callRet = <<>>

CombCall ==
    /\ pc = "comb_call"
    /\ callRet' = CombinationsMade(callArg.matrix, callArg.order)
    /\ pc' = "comb_ret"
    /\ UNCHANGED <<envVars, matrixVars, runVars, scalingVars, ctxVars, probeVars,
                   auditVars, callArg, wireVars>>

NextComb == CombCall

SpecComb == InitComb /\ [][NextComb]_vars

(***************************************************************************)
(* Direct calls of generateMessages.                                       *)
(***************************************************************************)
\* The postfix arguments of the direct calls.
MessagePostfixes == {<<>>, <<"!">>, <<"\n", "o", "k">>}

MessageInputs ==
    {[systemContentLength |-> n, postfix |-> x] :
        n \in (-1)..MaxFiller, x \in MessagePostfixes}

InitMsg ==
    /\ pc = "msg_call"
    /\ driverType = ""
    /\ matrix = EmptyMatrix
    /\ IdleBenchmark
    /\ callArg \in MessageInputs
    /\ callRet = <<>>

\* generateMessages returns; `random` is what generateRandomContent gave it.
MessagesCall ==
    /\ pc = "msg_call"
    /\ \E random \in RandomStrings :
          callRet' = [random |-> random,
                      messages |-> ChatMessages(
                          generateMessages(callArg.systemContentLength,
                                           callArg.postfix, random))]
    /\ pc' = "msg_ret"
    /\ UNCHANGED <<envVars, matrixVars, runVars, scalingVars, ctxVars, probeVars,
                   auditVars, callArg, wireVars>>

NextMsg == MessagesCall

SpecMsg == InitMsg /\ [][NextMsg]_vars

(***************************************************************************)
(* The calls RunMatrix and Run make on the one driver they reuse for all   *)
(* the parameter sets: Setup, GetURL and GetModel, Teardown.               *)
(***************************************************************************)
\* The value lists of the parameters of the matrices.
SetupCmdLists == {<<"up">>, <<"up", "">>}

TeardownCmdLists == {<<>>, <<"down">>, <<"down", "off">>}

ModelLists == {<<>>, <<"m1">>, <<"m1", "">>}

DriverMatrices ==
    {[setup_cmd |-> ParameterConfig(s, FALSE),
      teardown_cmd |-> ParameterConfig(t, FALSE),
      model |-> ParameterConfig(m, TRUE)] :
        s \in SetupCmdLists, t \in TeardownCmdLists, m \in ModelLists}

\* The order in which the matrix is iterated when the combinations are made.
DriverKeyOrders ==
    { <<"setup_cmd", "teardown_cmd", "model">>,
      <<"model", "teardown_cmd", "setup_cmd">> }

InitDrv ==
    /\ pc = "drv_setup"
    /\ srv = NominalProfile
    /\ up = TRUE
    /\ flips = 0
    /\ driverType = "local_cmd"
    /\ matrix \in DriverMatrices
    /\ d = NewDriver("local_cmd")
    /\ paramCombinations \in
         {generateParamCombinations(matrix, o) : o \in DriverKeyOrders}
    /\ idx = 1
    /\ matrixResults = <<>>
    /\ matrixErr = ""
    /\ setupDone = FALSE
    /\ runRet = NoRunResult
    /\ panicking = FALSE
    /\ anyRequest = FALSE
    /\ teardownCalls = 0
    /\ ctx = "warmup"
    /\ shortRes = {}
    /\ shortFit = NilFit
    /\ IdleContext
    /\ IdleProbe
    /\ IdleAudit
    /\ IdleWire
    /\ IdleCall

\* Run calls d.Setup(driverParams) and defers d.Teardown().
DriverSetup ==
    /\ pc = "drv_setup"
    /\ \E out \in Setup(d, paramCombinations[idx]) :
          /\ d' = out.d
          /\ setupDone' = Deferred(d, out.err)
          /\ pc' = IF out.err THEN "drv_next" ELSE "drv_use"
    /\ teardownCalls' = 0
    /\ teardownRan' = ""
    /\ callRet' = <<>>
    /\ UNCHANGED <<envVars, driverType, matrix, paramCombinations, idx,
                   matrixResults, matrixErr, runRet, panicking, anyRequest,
                   scalingVars, ctxVars, probeVars, auditVars, callArg,
                   chatParams, sent, replies, slept, lastContent, warmupErr>>

\* Run reads the URL and the model name the benchmark is created with.
DriverUse ==
    /\ pc = "drv_use"
    /\ callRet' = [url |-> d.url, model |-> d.model]
    /\ pc' = "drv_teardown"
    /\ UNCHANGED <<envVars, matrixVars, runVars, scalingVars, ctxVars, probeVars,
                   auditVars, callArg, wireVars>>

\* Run returns: the deferred d.Teardown().
DriverTeardown ==
    /\ pc = "drv_teardown"
    /\ teardownCalls' = teardownCalls + 1
    /\ teardownRan' = Teardown(d)
    /\ pc' = "drv_next"
    /\ UNCHANGED <<envVars, matrixVars, setupDone, runRet, panicking, anyRequest,
                   scalingVars, ctxVars, probeVars, auditVars, callVars,
                   chatParams, sent, replies, slept, lastContent, warmupErr>>

\* RunMatrix goes on to the next parameter set.
DriverNext ==
    /\ pc = "drv_next"
    /\ IF idx < Len(paramCombinations)
       THEN idx' = idx + 1 /\ pc' = "drv_setup"
       ELSE idx' = idx /\ pc' = "drv_done"
    /\ UNCHANGED <<envVars, driverType, matrix, d, paramCombinations,
                   matrixResults, matrixErr, runVars, scalingVars, ctxVars,
                   probeVars, auditVars, callVars, wireVars>>

NextDrv ==
    \/ DriverSetup
    \/ DriverUse
    \/ DriverTeardown
    \/ DriverNext

SpecDrv == InitDrv /\ [][NextDrv]_vars

(***************************************************************************)
(* Properties of a context run (SpecCtx).                                  *)
(***************************************************************************)
\* The results config j has offered to bestResults.
OfferedBy(j) == {o \in offered : o.ptr \in {2 * j - 1, 2 * j}}

\* The call of RunWithPromptLength for config j has returned an error.
ConfigFailed(j) ==
    /\ execCount[j] > 0
    /\ OfferedBy(j) = {}
    /\ j < ci \/ pc \in {"iter_end", "ctx_ret"}

\* C1: bestResults holds, under each signature offered so far, exactly one
\* result: one of that signature that was offered, that no offered result of
\* the signature is faster than, and the first offered of those as fast as
\* it (a duplicate replaces the retained result only when strictly faster).
FastestPerSignature ==
    /\ \A k \in DOMAIN bestResults :
          /\ SignatureKey(bestResults[k]) = k
          /\ bestResults[k] \in offered
    /\ \A o \in offered :
          LET k == SignatureKey(o)
          IN  /\ k \in DOMAIN bestResults
              /\ bestResults[k].ResponseTime <= o.ResponseTime
              /\ bestResults[k].ResponseTime = o.ResponseTime
                    => bestResults[k].ptr <= o.ptr

\* Two signatures were each offered twice: of one the later result was
\* strictly faster and is retained, of the other the later result was as
\* slow as the first, which is retained.
DuplicatesOffered ==
    \E o1, o2, o3, o4 \in offered :
       /\ SignatureKey(o1) = SignatureKey(o2)
       /\ o1.ptr < o2.ptr
       /\ o2.ResponseTime < o1.ResponseTime
       /\ bestResults[SignatureKey(o2)] = o2
       /\ SignatureKey(o3) = SignatureKey(o4)
       /\ o3.ptr < o4.ptr
       /\ o3.ResponseTime = o4.ResponseTime
       /\ bestResults[SignatureKey(o3)] = o3

\* At least 8 signatures whose fit has an R-squared of at least 0.99.
GoodEnough(best) ==
    /\ Cardinality(DOMAIN best) >= MinIntermediatePoints
    /\ LET fit == fitCompletionTimeModel(MapValues(best))
       IN  ~RLess(fit.RSquared, MinAcceptableRSquared)

\* C2: a context run goes on (to a request, a merge, the end of an iteration
\* or a further iteration) only with a map that is not good enough; once the
\* check after a config finds it good enough the run has returned, by the
\* early return, with the values of the map and the fit of exactly those.
StopsAtAcceptableFit ==
    /\ pc # "ctx_ret" => ~GoodEnough(bestResults)
    /\ retVia = "early" <=> GoodEnough(bestResults)
    /\ retVia = "early" =>
          /\ pc = "ctx_ret"
          /\ iteration <= MaxBenchmarkIterations
          /\ ctxRet.Results = MapValues(bestResults)
          /\ ctxRet.Fit = fitCompletionTimeModel(ctxRet.Results)
          /\ ~ctxRet.Fit.nil

\* The run has returned early, before the last config of the iteration
\* would have been followed by the end of the iteration.
StoppedEarly ==
    /\ pc = "ctx_ret"
    /\ retVia = "early"
    /\ iteration = 1
    /\ Cardinality(ctxRet.Results) = MinIntermediatePoints

\* C3: no config is passed to RunWithPromptLength more than once in a context
\* run; it is in configsRun from before its first request on, whatever the
\* outcome, and the iterations after the first, which skip the configs in
\* configsRun, make no call.
ConfigsRunAtMostOnce ==
    /\ \A j \in DOMAIN execCount :
          /\ execCount[j] <= 1
          /\ execCount[j] = 1 <=> ConfigKey(Configs[j]) \in configsRun
    /\ pc \in {"cold", "cached", "merge"} => execCount[ci] = 1
    /\ iteration > 1 => iterCalls = 0

\* The last iteration has ended and a config that failed in the first has
\* been run once only.
FailedConfigNotRetried ==
    /\ pc = "iter_end"
    /\ iteration = MaxBenchmarkIterations
    /\ \E j \in DOMAIN execCount : ConfigFailed(j) /\ execCount[j] = 1

\* C4: an iteration that follows another (the one before it has ended with at
\* least 4 signatures, no acceptable fit, and was not the last) has issued
\* requests by the time it ends.
LaterIterationsProbe ==
    pc = "iter_end" /\ iteration > 1 => iterCalls > 0

\* C9: when RunWithPromptLength has returned an error, the step that handles
\* it leaves bestResults as it is and goes on to the next config of the same
\* iteration; and in the first iteration the run goes from there to the
\* requests of that config.
FailedConfigPassedOver ==
    [][ /\ pc = "merge" /\ rwErr =>
              /\ bestResults' = bestResults
              /\ pc' = "loop"
              /\ ci' = ci + 1
              /\ iteration' = iteration
        /\ pc = "loop" /\ iteration = 1 /\ ci <= Len(Configs) =>
              /\ pc' = "cold"
              /\ ci' = ci
              /\ iteration' = iteration ]_vars

\* A request of a config is under way after an earlier config of the run
\* has failed and left the results of the ones before it in the map.
ContinuedAfterFailure ==
    /\ pc = "cold"
    /\ bestResults # <<>>
    /\ ConfigFailed(ci - 1)

\* C10 as stated: when the cold request of a config succeeded and the
\* repeated one failed, the cold result is offered to bestResults.
ColdResultStillOffered ==
    [][ pc = "merge" /\ rwErr /\ coldResult # <<>>
            => coldResult[1] \in offered' ]_vars

\* C10: when the cold request of a config succeeded and the repeated one
\* failed, RunWithPromptLength returns no result with its error, and
\* neither result of the config is offered: bestResults stays as it is.
ColdResultDroppedWithRepeat ==
    [][ pc = "merge" /\ rwErr /\ coldResult # <<>>
            => /\ results = <<>>
               /\ offered' = offered
               /\ bestResults' = bestResults ]_vars

\* The repeated request has failed after a cold request that succeeded
\* with a signature the map does not hold.
RepeatFailedAfterCold ==
    /\ pc = "merge"
    /\ rwErr
    /\ coldResult # <<>>
    /\ SignatureKey(coldResult[1]) \notin DOMAIN bestResults

\* The steps a context run can still take are bounded by Rank, which counts
\* down the iterations, the configs of the iteration and the steps of a
\* config.
Rank ==
    LET perConfig == 4
        perIteration == perConfig * (Len(Configs) + 2)
        step == CASE pc = "loop" -> 3
                  [] pc = "cold" -> 2
                  [] pc = "cached" -> 1
                  [] pc = "merge" -> 0
                  [] pc = "iter_end" -> 2
                  [] OTHER -> 0
    IN  CASE pc = "ctx_ret" -> 0
          [] pc = "ctx_entry" -> perIteration * (MaxBenchmarkIterations + 1)
          [] OTHER -> perIteration * (MaxBenchmarkIterations - iteration)
                        + perConfig * (Len(Configs) + 1 - ci) + step + 1

\* C11: a context run never goes beyond iteration MaxBenchmarkIterations
\* nor issues more than two requests per config of its list; until it has
\* returned it is at a step it can take (the merge and the end of an
\* iteration have no precondition), and every step lowers Rank, a natural
\* number: the run returns after finitely many steps, whatever the requests
\* fail with or report.
ContextRunBounded ==
    /\ [](/\ iteration \in 1..MaxBenchmarkIterations
          /\ ctxReqs <= 2 * Len(Configs)
          /\ Rank >= 0
          /\ pc \in {"ctx_entry", "loop", "cold", "cached", "merge", "iter_end",
                     "ctx_ret"}
          /\ pc = "ctx_entry" => ENABLED ContextStart
          /\ pc = "loop" => ENABLED NextConfig
          /\ pc = "cold" => ENABLED ColdRequest
          /\ pc = "cached" => ENABLED CachedRequest)
    /\ [][Rank' < Rank]_vars

\* The run has returned at the end of the last iteration after two requests
\* for every config.
ReturnedAfterAllRequests ==
    /\ pc = "ctx_ret"
    /\ retVia = "final"
    /\ iteration = MaxBenchmarkIterations
    /\ ctxReqs = 2 * Len(Configs)

(***************************************************************************)
(* Properties of RunMatrix (Spec).                                         *)
(***************************************************************************)
\* RunScalingBenchmark has ended, one way or the other, after both context
\* runs.
ScalingEnded == pc = "teardown" /\ anyRequest

\* C5: when one context run has returned a nil fit and the other at least
\* one result, RunScalingBenchmark returns, without an error, the two fits
\* as they are.
NilFitReturned ==
    ScalingEnded /\ \/ shortFit.nil /\ ctxRet.Results # {}
                    \/ ctxRet.Fit.nil /\ shortRes # {}
       => /\ ~panicking
          /\ runRet.Err = ""
          /\ runRet.Short = shortFit
          /\ runRet.Long = ctxRet.Fit

\* C6: when a context run has returned no result at all, the Run ends with
\* an error to record, not with a panic.
AllFailedIsAnError ==
    ScalingEnded /\ (shortRes = {} \/ ctxRet.Results = {})
       => ~panicking /\ runRet.Err # ""

\* Run has returned the error of a failed Setup.
SetupFailed == runRet.Err = "driver setup failed"

\* C7 as stated: after a failed Setup, Teardown has been called by the time
\* the result of the parameter set is recorded.
TeardownAfterFailedSetup ==
    pc = "record" /\ SetupFailed => teardownCalls = 1

\* C7: after a failed Setup the Run returns an error without having issued a
\* request, and without a call of Teardown.
FailedSetupEndsRun ==
    /\ SetupFailed => pc \in {"teardown", "record"} /\ ~anyRequest /\ ~setupDone
    /\ pc = "record" /\ SetupFailed => teardownCalls = 0

\* The result of a parameter set whose Setup failed is about to be recorded.
FailedSetupRecorded ==
    pc = "record" /\ SetupFailed /\ teardownCalls = 0

\* C8: with a driver, requests are issued only between a successful Setup
\* and the call of Teardown; Teardown has been called exactly once when the
\* Run has returned or ended by a panic, and so before the next Setup.
TeardownBracketsRequests ==
    /\ teardownCalls <= 1
    /\ anyRequest /\ d.kind # "none" => setupDone
    /\ pc \in {"cold", "cached", "warm_ret", "ctx_entry", "loop", "merge",
               "iter_end", "ctx_ret", "combine", "teardown"} => teardownCalls = 0
    /\ pc \in {"record", "crashed", "run", "done"} /\ setupDone => teardownCalls = 1

\* The next parameter set is about to be set up after a Run that issued
\* requests and whose Teardown has been called.
TornDownBeforeNextSetup ==
    /\ pc = "run"
    /\ idx > 1
    /\ setupDone
    /\ anyRequest
    /\ teardownCalls = 1

\* The endpoint has answered every request of the current Run (nominal
\* profile: it was answering at the first request and has not changed).
AllAnswered == ~srv.flaky /\ anyRequest /\ up /\ flips = 0

\* The MatrixResult of the Run that has just returned.
LastResult == matrixResults[Len(matrixResults)]

\* C12: a Run all of whose requests are answered, with the noiseless times
\* of the nominal endpoint, does not panic, returns from each context run
\* within MaxBenchmarkIterations iterations, and is recorded with a fit for
\* the short and for the long context, no error, and a LocalScore.
AnsweredRunScores ==
    AllAnswered =>
       /\ ~panicking
       /\ pc # "crashed"
       /\ iteration <= MaxBenchmarkIterations
       /\ pc = "record" =>
             /\ runRet.Err = ""
             /\ ~runRet.Short.nil
             /\ ~runRet.Long.nil
       /\ pc \in {"run", "done"} /\ runCount[Len(matrixResults)] = 1 =>
             /\ LastResult.Error = ""
             /\ ~LastResult.ShortContextModelFit.nil
             /\ ~LastResult.LongContextModelFit.nil
             /\ ~LastResult.LocalScore.nil

\* RunMatrix has returned after a last Run all of whose requests were
\* answered, and whose result carries a LocalScore.
AnsweredRunRecorded ==
    /\ pc = "done"
    /\ AllAnswered
    /\ matrixResults # <<>>
    /\ ~LastResult.LocalScore.nil
    /\ phases = [warmup |-> 1, short |-> 1, long |-> 1, returned |-> 2]

\* RunMatrix is over: it has returned, or a panic has ended the process.
RunMatrixOver == pc \in {"done", "crashed"}

\* C19 as stated: RunMatrix makes one Run for each parameter combination,
\* with one warmup, one short and one long context run at most, and returns
\* one MatrixResult for each combination, in their order and with the
\* parameters of its own combination, whatever error a Run ended with.
OneRunAndResultPerCombination ==
    /\ \A i \in DOMAIN runCount : runCount[i] <= 1
    /\ phases.warmup <= 1 /\ phases.short <= 1 /\ phases.long <= 1
    /\ Len(matrixResults) <= Len(paramCombinations)
    /\ \A i \in DOMAIN matrixResults :
          matrixResults[i].Params = paramCombinations[i]
    /\ RunMatrixOver /\ paramCombinations # <<>> =>
          /\ \A i \in DOMAIN runCount : runCount[i] = 1
          /\ Len(matrixResults) = Len(paramCombinations)

\* A step is one call of ChatCompletion when it is taken by ColdRequest or
\* CachedRequest; the call has returned when the step is over.
AtRequest == pc \in {"cold", "cached"}

\* C20: the requests are issued one call of ChatCompletion at a time, each
\* returned before the next; those of a parameter set in the order warmup,
\* short context run, long context run, and none of the long context run
\* before the short context run has returned.
RequestsInSequence ==
    /\ [](AtRequest =>
            /\ ctx = "warmup" =>
                  phases = [warmup |-> 1, short |-> 0, long |-> 0, returned |-> 0]
            /\ ctx = "short" =>
                  phases = [warmup |-> 1, short |-> 1, long |-> 0, returned |-> 0]
            /\ ctx = "long" =>
                  phases = [warmup |-> 1, short |-> 1, long |-> 1, returned |-> 1])
    /\ [][/\ ctxReqs' \in {0, ctxReqs, ctxReqs + 1}
          /\ ctxReqs' = ctxReqs + 1 => AtRequest /\ ctx # "warmup"
          /\ AtRequest => ENABLED ColdRequest \/ ENABLED CachedRequest]_vars

\* A request of the long context run is about to be issued after requests
\* of the warmup and of the short context run.
LongRequestAfterShortRun ==
    /\ AtRequest
    /\ ctx = "long"
    /\ anyRequest
    /\ shortRes # {}

(***************************************************************************)
(* Properties of Calculate (SpecCalc).                                     *)
(***************************************************************************)
\* A fit that is not nil and has a positive prompt rate and a positive
\* completion rate.
PositiveFit(f) == ~f.nil /\ f.PromptRate[1] > 0 /\ f.CompletionRate[1] > 0

\* C13: Calculate returns no score (nil, not a score of 0) exactly when none
\* of the fits it is given is non-nil with a positive prompt rate and a
\* positive completion rate; with such a fit it returns a score, computed
\* from positive rates.
ScoreAbsentIffNoFit ==
    pc = "calc_ret" =>
       /\ callRet.nil <=> ~\E i \in DOMAIN callArg : PositiveFit(callArg[i])
       /\ ~callRet.nil => callRet.promptTPS[1] > 0 /\ callRet.genTPS[1] > 0

\* Calculate has returned no score for a slice of the zero fit of too few
\* results and a nil fit.
NoScoreForZeroFit ==
    /\ pc = "calc_ret"
    /\ callArg = <<fitCompletionTimeModel({}), NilFit>>
    /\ callRet.nil

(***************************************************************************)
(* Properties of fitCompletionTimeModel (SpecFit).                         *)
(***************************************************************************)
\* The determinant of X^T X in whole numbers: the design matrix X of the
\* results has independent columns exactly when it is not 0.
Gram(observed) ==
    [i \in 0..2 |-> [j \in 0..2 |->
        LET terms == [k \in DOMAIN observed |->
                        XRow(observed[k])[i] * XRow(observed[k])[j]]
            sum[k \in 0..Len(observed)] ==
                IF k = 0 THEN 0 ELSE sum[k - 1] + terms[k]
        IN  sum[Len(observed)]]]

Det3(g) ==
      g[0][0] * (g[1][1] * g[2][2] - g[1][2] * g[2][1])
    - g[0][1] * (g[1][0] * g[2][2] - g[1][2] * g[2][0])
    + g[0][2] * (g[1][0] * g[2][1] - g[1][1] * g[2][0])

NonSingularDesign(observed) == Det3(Gram(observed)) # 0

\* The call has returned the fit of results of small token counts whose
\* design matrix is not singular.
SolvableCallReturned ==
    /\ pc = "fit_ret"
    /\ callArg.family \in {"any", "noiseless"}
    /\ NonSingularDesign(callArg.results)

Floor(rate) ==
    CASE rate = "prompt" -> Literal(Binary64, 1, 100)
      [] rate = "cached" -> Literal(Binary64, 1, 1000)
      [] rate = "completion" -> Literal(Binary64, 1, 10)

\* |x - target| <= tolerance.
Within(x, target, tolerance) == ~FLess(tolerance, FAbs(FSub(x, target)))

Float1em6 == FDiv(FInt(1), FInt(1000000))

\* C14 as stated: for at least 4 results and a non-singular design matrix
\* the rSquared of the fit lies in [0, 1].
RSquaredInUnitInterval ==
    SolvableCallReturned /\ Len(callArg.results) >= 4 =>
       /\ ~FLess(callRet.RSquared, FInt(0))
       /\ ~FLess(FInt(1), callRet.RSquared)

\* C15: the fit of at least 2 results, solved or fallen back, has a prompt
\* rate of at least 0.01, a cached prompt rate of at least 0.001 and a
\* completion rate of at least 0.1, all of them positive numbers.
RatesAtOrAboveFloors ==
    pc = "fit_ret" /\ Len(callArg.results) >= 2 =>
       /\ ~FLess(callRet.PromptRate, Floor("prompt"))
       /\ ~FLess(callRet.CachedPromptRate, Floor("cached"))
       /\ ~FLess(callRet.CompletionRate, Floor("completion"))
       /\ \A rate \in {callRet.PromptRate, callRet.CachedPromptRate,
                       callRet.CompletionRate} :
             ~FIsZero(rate) /\ FSign(rate) = 1

\* A solved fit has returned with its prompt rate and its cached prompt rate
\* raised to their floors.
SolvedFitRaisedToFloors ==
    /\ SolvableCallReturned
    /\ callRet.PromptRate = Floor("prompt")
    /\ callRet.CachedPromptRate = Floor("cached")
    /\ callRet # FallbackFitIn(Binary64)

\* C16 as stated: the fit of at least 2 results that all have the same
\* token counts is exactly the fallback: rates 3, 0.01 and 25, rSquared 0.5.
IdenticalCountsFallBack ==
    pc = "fit_ret" /\ callArg.family = "same" =>
       callRet = FallbackFitIn(Binary64)

\* C17 as stated: the fit of noiseless results of 2 ms per prompt token,
\* 0.5 ms per cached prompt token and 30 ms per completion token, with a
\* non-singular design matrix, has these rates and the rSquared 1, all
\* within 1e-6.
NoiselessRatesRecovered ==
    SolvableCallReturned /\ callArg.family = "noiseless" =>
       /\ Within(callRet.PromptRate, FInt(2), Float1em6)
       /\ Within(callRet.CachedPromptRate, Literal(Binary64, 1, 2), Float1em6)
       /\ Within(callRet.CompletionRate, FInt(30), Float1em6)
       /\ Within(callRet.RSquared, FInt(1), Float1em6)

(***************************************************************************)
(* Properties of generateParamCombinations (SpecComb).                     *)
(***************************************************************************)
\* The parameters of a matrix whose list of values is not empty.
Kept(m) == {k \in DOMAIN m : Len(m[k].Values) > 0}

ValuesOf(m, k) == {m[k].Values[i] : i \in DOMAIN m[k].Values}

\* The cartesian product of the value lists of the parameters K, and the
\* product of their lengths.
ProductOver(m, K) ==
    {f \in [K -> {ValueNames[i] : i \in DOMAIN ValueNames}] :
       \A k \in K : f[k] \in ValuesOf(m, k)}

RECURSIVE ProductOfLengths(_, _)
ProductOfLengths(m, K) ==
    IF K = {} THEN 1
    ELSE LET k == CHOOSE k \in K : TRUE
         IN  Len(m[k].Values) * ProductOfLengths(m, K \ {k})

\* The map returned at place i.
Returned(i) == callRet.maps[callRet.result[i]]

\* The returned maps are the cartesian product of the value lists of the
\* parameters K: as many as the product of the lengths, each assigning one
\* value of its list to every parameter of K, every element of the product
\* exactly once, each a map of its own that is not the map the generation
\* writes to.
ReturnsProductOver(K) ==
    LET m == callArg.matrix
        places == DOMAIN callRet.result
    IN  /\ Len(callRet.result) = ProductOfLengths(m, K)
        /\ \A i \in places :
              /\ DOMAIN Returned(i) = K
              /\ \A k \in K : Returned(i)[k] \in ValuesOf(m, k)
        /\ \A f \in ProductOver(m, K) :
              Cardinality({i \in places : Returned(i) = f}) = 1
        /\ \A i, j \in places : i # j => callRet.result[i] # callRet.result[j]
        /\ \A i \in places : callRet.result[i] # 1

\* C18 as stated: the combinations returned for a matrix are the cartesian
\* product of the value lists of all its parameters.
ProductOfAllLists ==
    pc = "comb_ret" /\ DOMAIN callArg.matrix # {} =>
       ReturnsProductOver(DOMAIN callArg.matrix)

\* C18: the combinations returned for a matrix are the cartesian product of
\* the value lists of its parameters that have a value, as independent
\* maps; a parameter with an empty list is left out of every combination,
\* and nothing is returned when no parameter has a value.
ProductOfNonEmptyLists ==
    pc = "comb_ret" =>
       IF Kept(callArg.matrix) = {} THEN callRet.result = <<>>
       ELSE ReturnsProductOver(Kept(callArg.matrix))

\* Four combinations have been returned for a matrix of two parameters with
\* two values each and a parameter with none.
CombinationsDespiteEmptyList ==
    /\ pc = "comb_ret"
    /\ Kept(callArg.matrix) # DOMAIN callArg.matrix
    /\ Len(callRet.result) = 4

(***************************************************************************)
(* Properties of the requests of a Run (Spec).                             *)
(***************************************************************************)
\* C21: once a request of the Run has returned, the full delay has been
\* slept after it, whether it succeeded or failed and whether it was the
\* cold or the repeated request; so every request of a Run that follows
\* another starts a full delay after that one returned.
DelayAfterEveryRequest ==
    /\ anyRequest => slept = RequestDelayMs
    /\ AtRequest /\ anyRequest => slept >= RequestDelayMs

\* The cold request of a config is about to start after the probe of the
\* config before it has failed, and the delay has been slept.
RequestAfterFailedRequest ==
    /\ pc = "cold"
    /\ ctx = "short"
    /\ ci > 1
    /\ ConfigFailed(ci - 1)
    /\ slept = RequestDelayMs

\* A result allocated by a request of the warmup.
FromWarmup(result) == result.ptr = 0

\* C22: the warmup probe is issued before any probe of the short or of the
\* long context run; none of its results is ever offered to or held by a
\* signature map, returned by a context run, or returned by the Run; and
\* whether it failed or not, RunScalingBenchmark goes on from it to the
\* short context run, with nothing but the warmup's own frame changed.
WarmupLeavesNoTrace ==
    /\ [](/\ AtRequest /\ ctx # "warmup" => phases.warmup = 1
          /\ AtRequest /\ ctx = "warmup" => phases.short = 0 /\ phases.long = 0
          /\ \A r \in offered \cup MapValues(bestResults) \cup ctxRet.Results
                        \cup shortRes \cup runRet.Results : ~FromWarmup(r)
          /\ \A i \in DOMAIN matrixResults :
                \A r \in matrixResults[i].Results : ~FromWarmup(r))
    /\ [][pc = "warm_ret" =>
             /\ pc' = "ctx_entry"
             /\ ctx' = "short"
             /\ results' = <<>>
             /\ rwErr' = FALSE
             /\ UNCHANGED <<matrixVars, runVars, shortRes, shortFit, ctxVars,
                            auditVars>>]_vars

\* A Run whose warmup failed has gone through both context runs and
\* returned their results and fits.
RunCompletedAfterFailedWarmup ==
    /\ pc = "record"
    /\ warmupErr
    /\ runRet.Err = ""
    /\ ~runRet.Short.nil
    /\ ~runRet.Long.nil

\* The prompt token counts reported for the configs of context run c.
ContextTokens(c) ==
    LET configs == IF c = "long" THEN longContextConfigs ELSE shortContextConfigs
    IN  {TokensOf(configs[j].PromptLength) : j \in DOMAIN configs}

\* A result of a request of context run c.
FromContext(result, c) ==
    /\ ~FromWarmup(result)
    /\ result.PromptTokens + result.CachedPromptTokens \in ContextTokens(c)

\* C23: every call of runContextBenchmark, the long one after the short one
\* and those of a later parameter set alike, starts with an empty signature
\* map and an empty record of the configs run; what a context run is
\* offered, retains and returns are results of its own requests only, its
\* fit is the fit of the results it returns, and the long context run
\* leaves the results and the fit of the short one as they were returned.
ContextRunsShareNothing ==
    /\ [](/\ ctx \in {"short", "long"} =>
               /\ \A r \in offered \cup MapValues(bestResults) \cup ctxRet.Results :
                     FromContext(r, ctx)
               /\ \A k \in configsRun : \E j \in DOMAIN Configs : k = ConfigKey(Configs[j])
          /\ pc = "ctx_ret" /\ ~ctxRet.Fit.nil =>
               ctxRet.Fit = fitCompletionTimeModel(ctxRet.Results)
          /\ \A r \in shortRes : FromContext(r, "short"))
    /\ [][/\ pc = "ctx_entry" =>
               /\ bestResults' = <<>>
               /\ configsRun' = {}
               /\ offered' = {}
               /\ iteration' = 1
          /\ ctx = "long" /\ ctx' = "long" => UNCHANGED <<shortRes, shortFit>>]_vars

\* The long context run of the second parameter set has returned results,
\* after the short context run had returned some.
LongRunOfSecondSetReturned ==
    /\ pc = "ctx_ret"
    /\ ctx = "long"
    /\ idx = 2
    /\ shortRes # {}
    /\ ctxRet.Results # {}
    /\ ~ctxRet.Fit.nil

\* The content of the one message of a request body.
ContentOf(body) == body.Messages[1].Content

\* C24: the repeated request of a probe carries the request body of the
\* cold request of the probe: the same message content (random prefix,
\* filler length and postfix) and the same sampling parameters, which are
\* temperature 0, top_p 1, seed 42 and the max_tokens of the config; and a
\* call of RunWithPromptLength starts without params and builds the content
\* of its messages itself, with what generateRandomContent returns to it.
RepeatCarriesColdRequest ==
    /\ [](/\ Len(sent) <= 2
          /\ Len(sent) = 2 => sent[2] = sent[1]
          /\ \A i \in DOMAIN sent :
                /\ sent[i].Messages = chatParams.Messages
                /\ Len(sent[i].Messages) = 1
                /\ ContentOf(sent[i]).lorem = CurrentConfig.PromptLength
                /\ ContentOf(sent[i]).postfix = Postfix
                /\ sent[i].Temperature = Temperature
                /\ sent[i].TopP = TopP
                /\ sent[i].Seed = Seed
                /\ sent[i].MaxTokens = CurrentConfig.MaxTokens
          /\ pc = "cold" => chatParams = <<>> /\ sent = <<>>)
    /\ [][pc = "cold" =>
             \E random \in RandomStrings :
                /\ chatParams' = ParamsOf(CurrentConfig, random)
                /\ ContentOf(sent'[1]).random = random]_vars

\* Both requests of a probe have been sent, with a content whose random
\* prefix is not that of the probe before it.
RepeatSentWithOwnPrefix ==
    /\ pc = "merge"
    /\ ci > 1
    /\ Len(sent) = 2
    /\ sent[1] = sent[2]
    /\ lastContent # <<>>
    /\ lastContent.random # ContentOf(sent[2]).random

(***************************************************************************)
(* Properties of the results of a probe (SpecCtx).                         *)
(***************************************************************************)
\* C25: the result of the repeated request of a probe has promptTokens 0
\* and, as cachedPromptTokens, the prompt token count the endpoint reported
\* for it, with the completion token count and the response time of that
\* request as they came; the result of the cold request has
\* cachedPromptTokens 0 and the reported counts; so every result offered
\* to, retained in or returned from a signature map has promptTokens 0 or
\* cachedPromptTokens 0.
CachedCountsMoved ==
    /\ Len(results) >= 1 =>
          /\ results[1].PromptTokens = replies[1].PromptTokens
          /\ results[1].CachedPromptTokens = 0
          /\ results[1].CompletionTokens = replies[1].CompletionTokens
          /\ results[1].ResponseTime = replies[1].ResponseTime
    /\ Len(results) = 2 =>
          /\ results[2].PromptTokens = 0
          /\ results[2].CachedPromptTokens = replies[2].PromptTokens
          /\ results[2].CompletionTokens = replies[2].CompletionTokens
          /\ results[2].ResponseTime = replies[2].ResponseTime
    /\ \A r \in offered \cup MapValues(bestResults) \cup ctxRet.Results :
          r.PromptTokens = 0 \/ r.CachedPromptTokens = 0

\* A probe has returned both results, the repeated request having been
\* reported with prompt tokens and another response time than the cold one.
RepeatedResultReturned ==
    /\ pc = "merge"
    /\ Len(results) = 2
    /\ replies[2].PromptTokens > 0
    /\ results[2].CachedPromptTokens = replies[2].PromptTokens
    /\ results[2].ResponseTime # results[1].ResponseTime
    /\ bestResults # <<>>

(***************************************************************************)
(* Properties of generateMessages (SpecMsg).                               *)
(***************************************************************************)
Longer(a, b) == IF a > b THEN a ELSE b

\* C26: the filler is the corpus repeated and cut to exactly the requested
\* number of characters, and empty for a request of 0 or less; the content
\* of the message is the prefix ("seed:", the random string, a line feed),
\* then the filler, then the postfix as it was given, so its length is that
\* of the prefix, plus the requested length or 0, plus that of the postfix.
FillerOfExactLength ==
    pc = "msg_ret" =>
       LET n == Longer(callArg.systemContentLength, 0)
           lead == Len(SeedLabel) + RandomLength + 1
           content == callRet.messages[1].Content
           filler == generateLoremIpsum(callArg.systemContentLength)
       IN  /\ Len(filler) = n
           /\ \A i \in 1..n : filler[i] = loremIpsumText[((i - 1) % CorpusLen) + 1]
           /\ Len(callRet.messages) = 1
           /\ callRet.messages[1].Role = "user"
           /\ Len(content) = lead + n + Len(callArg.postfix)
           /\ SubSeq(content, 1, lead) = SeedLabel \o callRet.random \o <<"\n">>
           /\ SubSeq(content, lead + 1, lead + n) = filler
           /\ SubSeq(content, lead + n + 1, Len(content)) = callArg.postfix

\* A content has been returned whose filler is more than two passes over
\* the corpus, the last one cut short, followed by a postfix.
CorpusRepeatedAndCut ==
    /\ pc = "msg_ret"
    /\ callArg.systemContentLength > 2 * CorpusLen
    /\ callArg.systemContentLength % CorpusLen # 0
    /\ callArg.postfix # <<>>

(***************************************************************************)
(* Properties of the return of a context run (SpecCtx).                    *)
(***************************************************************************)
\* C27: a context run returns a fit exactly when it returns at least
\* MinFinalPoints results, and the fit is that of the results it returns,
\* which are the values of the map; a run that ends an iteration with fewer
\* than MinFinalPoints signatures in the map returns there and then, without
\* a fit and without a further iteration.
FitIffEnoughResults ==
    /\ [](pc = "ctx_ret" =>
             /\ ctxRet.Fit.nil <=> Cardinality(ctxRet.Results) < MinFinalPoints
             /\ ctxRet.Results = MapValues(bestResults)
             /\ ~ctxRet.Fit.nil =>
                   ctxRet.Fit = fitCompletionTimeModel(ctxRet.Results))
    /\ [][pc = "iter_end" /\ Cardinality(DOMAIN bestResults) < MinFinalPoints =>
             /\ pc' = "ctx_ret"
             /\ ctxRet'.Fit.nil
             /\ ctxRet'.Results = MapValues(bestResults)
             /\ iteration' = iteration]_vars

\* The run has returned at the end of its first iteration with results,
\* but too few for a fit.
ReturnedTooFewForFit ==
    /\ pc = "ctx_ret"
    /\ retVia = "final"
    /\ iteration = 1
    /\ Cardinality(ctxRet.Results) \in 1..(MinFinalPoints - 1)
    /\ ctxRet.Fit.nil

(***************************************************************************)
(* Properties of the results of RunMatrix (Spec).                          *)
(***************************************************************************)
\* C28: a MatrixResult with an Error has neither fit nor a LocalScore; a
\* MatrixResult without an Error has a LocalScore exactly when it has at
\* least one fit.
ScoreAndFitsFollowError ==
    \A i \in DOMAIN matrixResults :
       LET fitted == \/ ~matrixResults[i].ShortContextModelFit.nil
                     \/ ~matrixResults[i].LongContextModelFit.nil
       IN  /\ matrixResults[i].Error # "" =>
                 ~fitted /\ matrixResults[i].LocalScore.nil
           /\ matrixResults[i].Error = "" =>
                 (~matrixResults[i].LocalScore.nil <=> fitted)

\* RunMatrix has recorded a parameter set whose Run returned an error and
\* one whose Run returned fits and was given a LocalScore.
ErrorAndScoreRecorded ==
    /\ Len(matrixResults) = 2
    /\ matrixResults[1].Error # ""
    /\ matrixResults[1].LocalScore.nil
    /\ matrixResults[2].Error = ""
    /\ ~matrixResults[2].ShortContextModelFit.nil
    /\ ~matrixResults[2].LocalScore.nil

\* RunMatrix is given a driver type that NewDriver does not know.
UnknownDriverType == driverType \notin {"", "dummy", "local_cmd"}

\* C29: RunMatrix returns an error exactly when the driver type is not one
\* NewDriver knows or no parameter of the matrix has a value (the empty
\* matrix included); it then returns no result and has made no Run: no
\* Setup, no request, no Teardown.  Otherwise every combination assigns a
\* value to exactly the parameters that have values: a parameter with an
\* empty list is left out of every combination.
RunMatrixRejectsWithoutRun ==
    /\ pc # "matrix" => (matrixErr # "" <=> UnknownDriverType \/ Kept(matrix) = {})
    /\ matrixErr # "" =>
          /\ pc = "done"
          /\ matrixResults = <<>>
          /\ paramCombinations = <<>>
          /\ runCount = <<>>
          /\ ~anyRequest
          /\ ~setupDone
          /\ teardownCalls = 0
          /\ sent = <<>>
    /\ pc # "matrix" /\ matrixErr = "" =>
          /\ paramCombinations # <<>>
          /\ \A i \in DOMAIN paramCombinations :
                DOMAIN paramCombinations[i] = Kept(matrix)

\* RunMatrix has returned its error for a matrix of parameters that all
\* have an empty list of values, given a driver type it knows.
NoValueMatrixRejected ==
    /\ pc = "done"
    /\ matrixErr # ""
    /\ DOMAIN matrix # {}
    /\ Kept(matrix) = {}
    /\ ~UnknownDriverType

(***************************************************************************)
(* Properties of the reused driver (SpecDrv).                              *)
(***************************************************************************)
\* The parameters of the set whose Run is under way.
OwnParams == paramCombinations[idx]

\* C30 as stated: with the local_cmd driver reused for all the parameter
\* sets, the Teardown after a parameter set runs no command or the teardown
\* command of that set's own parameters, and the model the benchmark of a
\* set is created with is the one of that set's own parameters, none when
\* they give none; the URL is the one of its own parameters, the one its
\* own setup command printed, or none.
TeardownOfOwnParameters ==
    /\ pc = "drv_next" /\ teardownRan # "" =>
          teardownRan = ParamString(OwnParams, "teardown_cmd")
    /\ pc = "drv_teardown" =>
          /\ callRet.model = ParamString(OwnParams, "model")
          /\ callRet.url \in {ParamString(OwnParams, "url")}
                               \cup (IF ParamString(OwnParams, "setup_cmd") # ""
                                     THEN SetupOutputs ELSE {})

====
